---- MODULE Spec2Model ----
(***************************************************************************)
(* The workflow orchestration of cogentxui: the stage graph of             *)
(* archon/archon_graph.py compiled over an in-memory checkpointer, the     *)
(* callers that drive it (archon/streamlit_ui.py, apii/api/main.py) and    *)
(* the template retrieval chain of archon/pydantic_ai_coder.py.            *)
(*                                                                         *)
(* A call is one agentic_flow.astream / ainvoke invocation.  Every node of *)
(* the graph is one step of a call; the engine stores a checkpoint of the  *)
(* thread after every step, and calls of different clients interleave at   *)
(* step boundaries (every node awaits an external service).                *)
(***************************************************************************)
EXTENDS Integers, Sequences, FiniteSets, TLC

VARIABLES
    checkpoint,     \* MemorySaver: thread id -> latest checkpoint of that thread
    call,           \* client -> the client's current (or last) workflow call
    ui_messages,    \* streamlit session -> st.session_state.messages (types)
    nCalls,         \* number of workflow calls started so far
    process,        \* the server process this behaviour is of
    overlapped,     \* thread id -> some call on it began while another was in flight
    saved,          \* thread id -> the state of the call that last suspended on it
    retrieval,      \* one invocation of find_similar_agent_templates
    generation,     \* one invocation of coder_agent
    stream,         \* the chunk stream of one browser session's turns
    ws,             \* the websocket connections of one session id
    api_server,     \* api_server.py: active_sessions and the requests in flight
    finalization,   \* two invocations of finish_conversation on one state
    parsing,        \* one invocation of clean_and_parse_json
    workbench       \* the files of the workbench directory

vars == <<checkpoint, call, ui_messages, nCalls, process, overlapped, saved,
          retrieval, generation, stream, ws, api_server, finalization, parsing,
          workbench>>

-----------------------------------------------------------------------------
(* Bounds *)

\* Workflow calls (turns) started in one behaviour, over all clients.
MaxCalls == 3

-----------------------------------------------------------------------------
(* The graph *)

Nodes == {"define_scope_with_reasoner", "create_architecture",
          "create_implementation_plan", "coder_agent",
          "get_next_user_message", "finish_conversation"}

EntryNode == "define_scope_with_reasoner"
WaitNode == "get_next_user_message"

EdgeSkipsWait(n) ==
    CASE n = "define_scope_with_reasoner" -> "create_architecture"
      [] n = "create_architecture" -> "create_implementation_plan"
      [] n = "create_implementation_plan" -> "coder_agent"
      [] n = "coder_agent" -> "END"
      [] n = "finish_conversation" -> "END"

\* The unconditional edges of the graph; the wait node has a conditional edge.
EdgeFrom(n) ==
    CASE n = "define_scope_with_reasoner" -> "create_architecture"
      [] n = "create_architecture" -> "create_implementation_plan"
      [] n = "create_implementation_plan" -> "coder_agent"
      [] n = "coder_agent" -> "get_next_user_message"
      [] n = "finish_conversation" -> "END"

\* What the router agent may answer.
RouterOutputs == {"finish_conversation", "coder_agent", "", "finish_conversation."}

RouteDefaultsToFinish(out) ==
    IF out = "coder_agent" THEN "coder_agent" ELSE "finish_conversation"

\* route_user_message: the exact text finish_conversation finishes, all else continues.
route_user_message(out) ==
    IF out = "finish_conversation" THEN "finish_conversation" ELSE "coder_agent"

-----------------------------------------------------------------------------
(* Conversation state *)

\* AgentState.  0 stands for the empty string; a positive number n stands for
\* the text supplied or produced in call n.
EmptyState == [latest_user_message |-> 0, messages |-> <<>>, scope |-> 0,
               architecture |-> 0]

ReducerOverwrites(x, y) == y

\* The reducer of AgentState.messages: lambda x, y: x + y.
MessagesReducer(x, y) == x \o y

\* A node's returned update applied to the state: messages through the
\* reducer, every other key overwritten, keys outside the schema dropped.
ApplyUpdate(st, upd) ==
    [k \in DOMAIN st |->
        IF k \in DOMAIN upd
        THEN IF k = "messages" THEN MessagesReducer(st[k], upd[k]) ELSE upd[k]
        ELSE st[k]]

-----------------------------------------------------------------------------
(* Clients and threads *)

UiSessions == {"u1", "u2"}      \* browser sessions of the streamlit app
ApiClients == {"a1", "a2"}      \* HTTP clients of POST /api/chat (api/main.py)
HealthClients == {"health"}     \* the caller of GET /api/health (api/main.py)
Clients == UiSessions \cup ApiClients \cup HealthClients

ApiThreads == {"t1"}            \* thread ids an HTTP client supplies
UuidThreads == {"t2"}           \* thread ids that uuid4 generates
HealthThread == "test"          \* the thread id of health_check's test call
Threads == {"ui", HealthThread} \cup ApiThreads \cup UuidThreads

\* get_thread_id is an st.cache_resource: one uuid for the whole process.
get_thread_id(u) == "ui"

\* A checkpoint: the state values, the node to run next, and whether the
\* graph stopped there on an interrupt.
NoCheckpoint == [exists |-> FALSE, values |-> EmptyState, next |-> "none",
                 interrupt |-> FALSE]

\* What a call's CodeGeneration did: the branch it returned from, the texts
\* the completion yielded and the chunks full generation emitted.
NoGen == [kind |-> "none", yielded |-> 0, chunks |-> 0]

\* A call: the node it is at, the state it threads through the nodes, the
\* pending resume value (0: none), the nodes it has entered, the router's
\* last answer, whether its thread was suspended at the wait node when it
\* began, and whether it follows a call of the same client on the same
\* thread that a stage failure ended.
IdleCall == [pc |-> "idle", thread |-> "none", st |-> EmptyState, resume |-> 0,
             id |-> 0, mode |-> "none", ran |-> <<>>, classified |-> "none",
             was_suspended |-> FALSE, outcome |-> "none", gen |-> NoGen,
             retry |-> FALSE]

-----------------------------------------------------------------------------
(* Template retrieval: find_similar_agent_templates *)

\* The fixed keyword list of the keyword fallback, in the order it is tried.
keywords == <<"newsletter", "write", "content", "article">>

\* Purposes are sequences of words; ilike '%kw%' is a case-insensitive
\* substring match, tabulated here for the words of the model.
WordContains(word, kw) ==
    \/ word = "newsletter" /\ kw = "newsletter"
    \/ word = "writer" /\ kw = "write"
    \/ word = "Content" /\ kw = "content"

PurposeMatches(purpose, kw) ==
    \E i \in 1..Len(purpose) : WordContains(purpose[i], kw)

\* Rows of the agent_templates table.  A code column holds 0 (empty or
\* null) or a positive number standing for a non-empty source text.
Row(id, has_purpose, purpose, a, t, k, c) ==
    [id |-> id, has_purpose |-> has_purpose, purpose |-> purpose,
     agents_code |-> a, tools_code |-> t, tasks_code |-> k, crew_code |-> c]

RNews == Row(1, TRUE, <<"newsletter", "writer">>, 11, 12, 13, 14)
RResearch == Row(2, TRUE, <<"research">>, 21, 0, 0, 0)
RContent == Row(3, TRUE, <<"Content">>, 0, 0, 0, 0)
RNoPurpose == Row(4, FALSE, <<>>, 41, 42, 43, 44)

Rows == {RNews, RResearch, RContent, RNoPurpose}

\* A query result: the rows returned, or a failure of the store.
Raise == [raised |-> TRUE, data |-> <<>>]
Data(rows) == [raised |-> FALSE, data |-> rows]

\* A code mapping is the sequence of its (key, text) items; {} is <<>>.
\* An explicit no-match result: a marker text with an empty code mapping.
NoMatch(marker, trace) ==
    [raised |-> FALSE, matched |-> FALSE, purpose |-> <<marker>>,
     code |-> <<>>, row |-> 0, trace |-> trace]

Raised(trace) ==
    [raised |-> TRUE, matched |-> FALSE, purpose |-> <<>>, code |-> <<>>,
     row |-> 0, trace |-> trace]

\* Lines 959-980: the purpose is read with best_match['purpose'] (a KeyError
\* when the row has none), the code columns with .get(column, '').
Selected(best_match, trace) ==
    IF ~best_match.has_purpose THEN Raised(trace)
    ELSE [raised |-> FALSE, matched |-> TRUE, purpose |-> best_match.purpose,
          code |-> << <<"agents_code", best_match.agents_code>>,
                      <<"tools_code", best_match.tools_code>>,
                      <<"tasks_code", best_match.tasks_code>>,
                      <<"crew_code", best_match.crew_code>> >>,
          row |-> best_match.id, trace |-> trace]

KeywordQueryFromRequest(env, i) ==
    IF env.kw_raise = i THEN Raise
    ELSE Data(SelectSeq(env.store.data,
                 LAMBDA r : r.has_purpose
                            /\ \E j \in 1..Len(r.purpose) :
                                  \E w \in 1..Len(env.query) :
                                     r.purpose[j] = env.query[w]))

\* The ilike query of one keyword against the store.  The pattern is made
\* of the keyword alone; the request (env.query) is not part of it.
KeywordQuery(env, i) ==
    IF env.kw_raise = i THEN Raise
    ELSE Data(SelectSeq(env.store.data,
                 LAMBDA r : r.has_purpose /\ PurposeMatches(r.purpose, keywords[i])))

RECURSIVE KeywordSearch(_, _, _)
\* Lines 943-955: the for/else loop over the keywords.
KeywordSearch(env, i, trace) ==
    IF i > Len(keywords) THEN NoMatch("No similar templates found", trace)
    ELSE LET res == KeywordQuery(env, i)
             tr == Append(trace, <<"keyword", i>>)
         IN IF res.raised THEN Raised(tr)
            ELSE IF res.data # <<>> THEN Selected(res.data[1], tr)
            ELSE KeywordSearch(env, i + 1, tr)

AfterFirstQueryEager(env, first, trace) ==
    LET tr == Append(trace, <<"similarity", 30>>)
    IN IF env.q2.raised THEN Raised(tr)
       ELSE IF env.q2.data # <<>> THEN Selected(env.q2.data[1], tr)
       ELSE IF first.data # <<>> THEN Selected(first.data[1], tr)
       ELSE KeywordSearch(env, 1, tr)

\* Lines 929-957 after the first similarity query returned `first`.
AfterFirstQuery(env, first, trace) ==
    IF first.data # <<>> THEN Selected(first.data[1], trace)
    ELSE LET tr == Append(trace, <<"similarity", 30>>)
         IN IF env.q2.raised THEN Raised(tr)
            ELSE IF env.q2.data # <<>> THEN Selected(env.q2.data[1], tr)
            ELSE KeywordSearch(env, 1, tr)

\* Lines 903-980: the body inside the try.  get_embedding never raises (it
\* returns a zero vector on error), so the embedding only opens the trace.
RetrievalBody(env) ==
    LET t0 == <<<<"embedding", 0>>, <<"list", 0>>>>
    IN IF env.store.raised THEN Raised(t0)
       ELSE IF env.store.data = <<>> THEN NoMatch("No templates available", t0)
       ELSE LET t1 == Append(t0, <<"similarity", 50>>)
            IN IF env.q1.raised THEN Raised(t1)
               ELSE AfterFirstQuery(env, env.q1, t1)

RetrievalPropagates(env) == RetrievalBody(env)

\* find_similar_agent_templates: the body under try / except Exception.
find_similar_agent_templates(env) ==
    LET r == RetrievalBody(env)
    IN IF r.raised THEN NoMatch("Error finding similar templates", r.trace)
       ELSE r

\* The behaviours of the embedding service and the artifact store that one
\* retrieval may meet.
MaxResultLen == 2

RECURSIVE SeqsUpTo(_, _)
SeqsUpTo(S, n) ==
    IF n = 0 THEN {<<>>}
    ELSE LET shorter == SeqsUpTo(S, n - 1)
         IN shorter \cup {Append(q, x) : q \in shorter, x \in S}

QueryResults == {Raise} \cup {Data(q) : q \in SeqsUpTo(Rows, MaxResultLen)}

Stores == {Raise, Data(<<>>), Data(<<RResearch>>), Data(<<RResearch, RNews>>),
           Data(<<RContent, RNews>>), Data(<<RNoPurpose>>),
           Data(<<RResearch, RContent>>)}

\* The user's request (user_query), a sequence of words.  It is embedded
\* for the two similarity queries, whose results q1 and q2 stand for.
Requests == {<<"newsletter">>, <<"research">>}

RetrievalEnvs ==
    [store : Stores, q1 : QueryResults, q2 : QueryResults,
     kw_raise : 0..Len(keywords), query : Requests]

NoRetrieval ==
    [env |-> [store |-> Data(<<>>), q1 |-> Data(<<>>), q2 |-> Data(<<>>),
              kw_raise |-> 0, query |-> <<"newsletter">>],
     done |-> FALSE, result |-> NoMatch("", <<>>)]

-----------------------------------------------------------------------------
(* Template adaptation: adapt_template_code *)

\* One completion call per item of the template, in order; replies[i] is the
\* text the completion returns for item i (0: empty), and fail_at names the
\* item whose call raises (0: none).  Any exception empties the result.
adapt_template_code(template_code, replies, fail_at) ==
    IF fail_at \in 1..Len(template_code) THEN <<>>
    ELSE [i \in 1..Len(template_code) |-> <<template_code[i][1], replies[i]>>]

AdaptInPlace(template_code, replies, fail_at) ==
    [heap |-> << [i \in 1..Len(template_code) |->
                    IF fail_at \in 1..i THEN template_code[i]
                    ELSE <<template_code[i][1], replies[i]>>] >>,
     template |-> 1,
     returned |-> 1]

\* The objects of one call of adapt_template_code.  Object 1 is the mapping
\* passed as template_code, which the call only reads (line 997); object 2
\* is the mapping the call returns, the adapted_code created at line 995
\* or the empty mapping of the handler (line 1019).
AdaptOnHeap(template_code, replies, fail_at) ==
    [heap |-> <<template_code,
                adapt_template_code(template_code, replies, fail_at)>>,
     template |-> 1,
     returned |-> 2]

\* `m and isinstance(m, dict) and any(m.values())`
HasCode(m) == m # <<>> /\ \E i \in 1..Len(m) : m[i][2] # 0

NoObjects == [heap |-> <<>>, template |-> 0, returned |-> 0]

\* The adaptation call of one invocation of coder_agent (line 388), made
\* when retrieval returned a template with code.
AdaptCall(inp) ==
    IF HasCode(find_similar_agent_templates(inp.env).code)
    THEN AdaptOnHeap(find_similar_agent_templates(inp.env).code, inp.replies,
                     inp.fail_at)
    ELSE NoObjects

\* A whitespace-only text: true for `any(...)`, empty after strip().
Blank == -1

\* `isinstance(code, str) and code.strip()`: the texts the write loop keeps.
Writable(v) == v > 0

AdaptReplies == {<<0, 0, 0, 0>>, <<1, 1, 1, 1>>, <<1, 0, 0, 0>>, <<0, 1, 1, 1>>,
                 <<Blank, Blank, Blank, Blank>>, <<Blank, 1, 0, 0>>}

\* The environments of the store that a coder_agent step draws from.
NoRaise(store, q1, q2) ==
    [store |-> Data(store), q1 |-> Data(q1), q2 |-> Data(q2), kw_raise |-> 0,
     query |-> <<"newsletter">>]

CoderEnvs ==
    { NoRaise(<<>>, <<>>, <<>>),
      NoRaise(<<RResearch>>, <<>>, <<>>),
      NoRaise(<<RResearch, RNews>>, <<RNews>>, <<>>),
      NoRaise(<<RResearch, RNews>>, <<>>, <<RResearch>>),
      NoRaise(<<RResearch, RContent>>, <<>>, <<>>),
      NoRaise(<<RNoPurpose>>, <<RNoPurpose>>, <<>>),
      [store |-> Raise, q1 |-> Data(<<>>), q2 |-> Data(<<>>), kw_raise |-> 0,
       query |-> <<"newsletter">>] }

-----------------------------------------------------------------------------
(* One invocation of coder_agent, as a function of what its services do *)

\* Text deltas one streamed completion yields.
MaxDeltas == 2

\* The inputs of one invocation: the store's behaviour, the adapter's
\* replies, the adaptation call that raises (0: none), the file write that
\* raises (0: none), the provider kind, the deltas of the full-generation
\* completion and whether that completion raises.
CoderInputs ==
    [env : CoderEnvs, replies : AdaptReplies, fail_at : 0..4, io_fail : 0..4,
     is_openai : BOOLEAN, deltas : 0..MaxDeltas, gen_raise : BOOLEAN]

\* The inputs that the turns of a conversation draw from: no template or a
\* first-query match with every component adapted, a write that fails or
\* none, an empty or a full completion.
TurnInputs ==
    [env : {NoRaise(<<RResearch>>, <<>>, <<>>),
            NoRaise(<<RResearch, RNews>>, <<RNews>>, <<>>)},
     replies : {<<1, 1, 1, 1>>},
     fail_at : {0}, io_fail : {0, 2}, is_openai : BOOLEAN,
     deltas : {0, MaxDeltas}, gen_raise : BOOLEAN]

\* Lines 398-408: the write loop over the adapted mapping.  Items that are
\* not writable are skipped; a failing write raises out of the loop.
RECURSIVE WriteFiles(_, _, _, _)
WriteFiles(adapted, io_fail, i, acc) ==
    IF i > Len(adapted) THEN [raised |-> FALSE, files |-> acc]
    ELSE IF ~Writable(adapted[i][2]) THEN WriteFiles(adapted, io_fail, i + 1, acc)
    ELSE IF io_fail = i THEN [raised |-> TRUE, files |-> acc]
    ELSE WriteFiles(adapted, io_fail, i + 1, Append(acc, adapted[i]))

CreatedChunks(files) == [i \in 1..Len(files) |-> <<"created", files[i][1]>>]

\* Lines 362-416: template processing under try / except Exception.
\* `returned` tells whether line 411 was reached.
TemplateProcessing(inp) ==
    LET r == find_similar_agent_templates(inp.env)
        none == [returned |-> FALSE, has_template |-> FALSE, adapted |-> <<>>,
                 files |-> <<>>, chunks |-> <<>>, retrieval |-> r, caught |-> FALSE]
    IN IF ~HasCode(r.code) THEN none
       ELSE LET adapted == adapt_template_code(r.code, inp.replies, inp.fail_at)
                found == << <<"found", r.row>> >>
                tried == [none EXCEPT !.has_template = TRUE, !.adapted = adapted,
                                      !.chunks = found]
            IN IF ~HasCode(adapted) THEN tried
               ELSE LET w == WriteFiles(adapted, inp.io_fail, 1, <<>>)
                        made == found \o CreatedChunks(w.files)
                    IN IF w.raised
                       THEN [tried EXCEPT !.files = w.files, !.chunks = made,
                                          !.caught = TRUE]
                       ELSE [tried EXCEPT !.returned = TRUE, !.files = w.files,
                                          !.chunks = Append(made, <<"done", 0>>)]

FullGenerationAlways(inp) == [raised |-> TRUE, chunks |-> <<>>]

FullGenerationSilent(inp) == [raised |-> inp.gen_raise, chunks |-> <<>>]

\* Lines 418-438: full generation.  Without streaming the whole text is one
\* chunk; with streaming every delta is a chunk, and a failure of the
\* completion leaves the function uncaught.
FullGeneration(inp) ==
    IF inp.is_openai
    THEN [raised |-> inp.gen_raise,
          chunks |-> [j \in 1..inp.deltas |-> <<"delta", j>>]]
    ELSE [raised |-> inp.gen_raise,
          chunks |-> IF inp.gen_raise THEN <<>> ELSE << <<"data", 0>> >>]

\* coder_agent: what one invocation does and returns.  `update` is the
\* returned dict's messages list, `full` whether full generation was invoked.
coder_agent_run(inp) ==
    LET t == TemplateProcessing(inp)
        base == [raised |-> FALSE, full |-> FALSE, returned |-> t.returned,
                 has_template |-> t.has_template, adapted |-> t.adapted,
                 files |-> t.files, caught |-> t.caught,
                 retrieval |-> t.retrieval, chunks |-> t.chunks,
                 update |-> <<>>]
    IN IF t.returned THEN base
       ELSE LET g == FullGeneration(inp)
            IN [base EXCEPT !.full = TRUE, !.raised = g.raised,
                            !.chunks = t.chunks \o g.chunks,
                            !.update = IF g.raised THEN <<>>
                                       ELSE <<"new_messages_json">>]

-----------------------------------------------------------------------------
(* The chunk stream: writer -> astream(stream_mode="custom") -> the caller *)

\* Turns of one browser session.
MaxTurns == 2

\* finish_conversation, lines 474-485: the same two ways of emitting as
\* full generation.
finish_conversation_run(inp) ==
    IF inp.is_openai
    THEN [raised |-> inp.gen_raise,
          chunks |-> [j \in 1..inp.deltas |-> <<"delta", j>>]]
    ELSE [raised |-> inp.gen_raise,
          chunks |-> IF inp.gen_raise THEN <<>> ELSE << <<"data", 0>> >>]

\* What the one emitting stage of a turn writes, and whether it raises
\* after that: CodeGeneration (run, or resume routed Continue) or
\* Finalization (resume routed Finish).
StagePlans ==
    {[stage |-> "coder_agent", chunks |-> coder_agent_run(inp).chunks,
      raised |-> coder_agent_run(inp).raised] : inp \in TurnInputs}
    \cup
    {[stage |-> "finish_conversation", chunks |-> finish_conversation_run(inp).chunks,
      raised |-> finish_conversation_run(inp).raised] : inp \in TurnInputs}

NoPlan == [stage |-> "none", chunks |-> <<>>, raised |-> FALSE]

\* `written` is every chunk a stage passed to writer, `queue` the chunks
\* the engine holds, `received` what chat_tab got from the generator, in
\* the order it got it; each chunk is tagged with its turn and stage.
NoStream == [turn |-> 0, phase |-> "idle", plan |-> NoPlan, generated |-> 0,
             written |-> <<>>, queue |-> <<>>, received |-> <<>>,
             returned |-> {}, errors |-> <<>>]

TakeNewest(queue) ==
    [chunk |-> queue[Len(queue)], rest |-> SubSeq(queue, 1, Len(queue) - 1)]

\* `async for msg in agentic_flow.astream(...): yield msg`: the chunks come
\* out in the order they were written.
TakeChunk(queue) == [chunk |-> Head(queue), rest |-> Tail(queue)]

-----------------------------------------------------------------------------
(* The websocket endpoints: /ws/chat/{id} of api/main.py and api_server.py *)

\* Connections opened for one session id, and messages sent on each.
MaxConns == 2
MaxWsTurns == 2

Conns == 1..MaxConns
WsServers == {"main", "api_server"}

\* What a client may send: a JSON text with a non-blank message, one with a
\* blank message, or a text that is not JSON.
WsInputs == {"text", "empty", "invalid_json"}

\* A connection: `state` is open, gone (the client disconnected) or closed
\* (the server closed it); `pc` is the handler's position; `delivered` are
\* the messages the client received, each <<type, connection, turn>>;
\* `frozen` is what it had received when it disconnected; `input` is the
\* last text the handler received.
NoConn == [state |-> "none", pc |-> "none", turn |-> 0, delivered |-> <<>>,
           frozen |-> <<>>, input |-> "none"]

\* `registry` is active_connections / websocket_connections at the session id.
NoWs == [server |-> "none", registry |-> 0, conn |-> [k \in Conns |-> NoConn]]

TargetRegistry(w, k) == w.registry

\* The socket a handler sends on: its own `websocket` argument, not the
\* registry entry of the session id.
Target(w, k) == k

\* websocket.send_text from the handler of connection k: delivered when the
\* peer is connected, an exception otherwise.
Send(w, k, type) ==
    LET j == Target(w, k)
        msg == <<type, k, w.conn[k].turn>>
    IN IF j \in Conns /\ w.conn[j].state = "open"
       THEN [ok |-> TRUE, w |-> [w EXCEPT !.conn[j].delivered = Append(@, msg)]]
       ELSE [ok |-> FALSE, w |-> w]

\* The handler of connection k ends: the registry entry of the session id is
\* deleted and a connection that is still open is closed.
Cleanup(w, k) ==
    [w EXCEPT !.registry = 0,
              !.conn[k].pc = "done",
              !.conn[k].state = IF @ = "open" THEN "closed" ELSE @]

\* api/main.py websocket_chat, one received text.  AGENT_AVAILABLE is
\* assigned at line 234 without a global declaration, so it is a local of
\* the function and its read at line 198 raises UnboundLocalError, which the
\* outer `except Exception` turns into cleanup and close.
MainReceive(w, k, input) ==
    IF input \in {"invalid_json", "empty"} THEN Send(w, k, "error").w
    ELSE Cleanup(w, k)

\* api_server.py websocket_chat, one received text: a text that does not
\* parse leaves the loop through `except Exception` (lines 170-176);
\* any parsed message starts the workflow.
ApiServerReceive(w, k, input) ==
    IF input = "invalid_json" THEN Cleanup(Send(w, k, "error").w, k)
    ELSE [w EXCEPT !.conn[k].pc = "invoke"]

-----------------------------------------------------------------------------
(* api_server.py: the session table active_sessions and its handlers *)

SessionIds == {"s1", "s2"}

\* Messages handled and session dicts created in one behaviour.
MaxRequests == 2
MaxObjects == 3

\* The agent_state dict of a session: the keys of lines 50-55, and the key
\* thread_id that only websocket_chat adds (1: present, 0: absent).
AgentStateDict(thread_id) ==
    [latest_user_message |-> 0, messages |-> <<>>, scope |-> 0,
     architecture |-> 0, thread_id |-> thread_id]

\* The dict chat stores for a session id it does not know (lines 48-56).
NewHttpSession == [messages |-> <<>>, agent_state |-> AgentStateDict(0)]

\* The dict websocket_chat stores for a session id it does not know
\* (lines 109-118).
NewWsSession == [messages |-> <<>>, agent_state |-> AgentStateDict(1)]

\* The dict clear_chat stores (lines 191-199).
ClearedSession == [messages |-> <<>>, agent_state |-> AgentStateDict(0)]

\* A handler is the chat request or the websocket connection of a session
\* id.  `ref` is the session dict it holds (`session`, lines 58 and 120),
\* `before` that dict's value when the handler took the message, `input`
\* the agent_state passed to ainvoke, `emitted` the chunks the stages wrote
\* during the call and `response` the texts joined into the response.
HandlerKinds == {"http", "ws"}
Handlers == HandlerKinds \X SessionIds

NoHandler == [pc |-> "idle", ref |-> 0, id |-> 0, before |-> ClearedSession,
              input |-> AgentStateDict(0), outcome |-> "none",
              emitted |-> <<>>, response |-> <<>>]

\* Session dicts are objects: `objects` is the heap, active_sessions maps a
\* session id to the dict stored for it (0: the id is not a key).
NoApiServer ==
    [active_sessions |-> [s \in SessionIds |-> 0], objects |-> <<>>,
     handler |-> [h \in Handlers |-> NoHandler], nRequests |-> 0]

\* `if session_id not in active_sessions: active_sessions[session_id] = new`,
\* then `session = active_sessions[session_id]`.
GetSession(a, h, new) ==
    LET s == h[2]
        a1 == IF a.active_sessions[s] # 0 THEN a
              ELSE [a EXCEPT !.objects = Append(@, new),
                             !.active_sessions[s] = Len(a.objects) + 1]
    IN [a1 EXCEPT !.handler[h].ref = a1.active_sessions[s]]

\* Lines 61-62 and 129-130: the message is stored in the session dict, then
\* the workflow is called with the session's agent_state.
TakeMessage(a, h) ==
    LET r == a.handler[h].ref
        id == a.nRequests + 1
        a1 == [a EXCEPT !.objects[r].agent_state.latest_user_message = id,
                        !.objects[r].messages = Append(@, <<"user", id>>)]
    IN [a1 EXCEPT !.nRequests = id,
                  !.handler[h] = [pc |-> "invoke", ref |-> r, id |-> id,
                                  before |-> a.objects[r],
                                  input |-> a1.objects[r].agent_state,
                                  outcome |-> "none",
                                  emitted |-> <<>>, response |-> <<>>]]

\* What agentic_flow.ainvoke returns for an input when no stage fails: the
\* values of the state's keys once the run has stopped at the wait node.
WorkflowResult(input, id) ==
    [latest_user_message |-> input.latest_user_message,
     messages |-> Append(input.messages, <<"coder_agent", id>>),
     scope |-> id, architecture |-> id]

\* chat, lines 78-84: `session['agent_state'] = result`, then the assistant
\* message is appended.
ChatReturned(a, h) ==
    LET k == a.handler[h]
        res == WorkflowResult(k.input, k.id)
    IN [a EXCEPT !.objects[k.ref].agent_state =
                      [key \in DOMAIN @ |-> IF key \in DOMAIN res THEN res[key] ELSE 0],
                 !.objects[k.ref].messages = Append(@, <<"assistant", k.id>>),
                 !.handler[h].pc = "idle",
                 !.handler[h].outcome = "returned"]

\* websocket_chat, line 151: `session['agent_state'].update(result)`.
WsReturned(a, h) ==
    LET k == a.handler[h]
        res == WorkflowResult(k.input, k.id)
    IN [a EXCEPT !.objects[k.ref].agent_state =
                      [key \in DOMAIN @ |-> IF key \in DOMAIN res THEN res[key] ELSE @[key]],
                 !.handler[h].pc = "receive",
                 !.handler[h].outcome = "returned"]

\* The chunks the stages of one returning call write: those of the one
\* emitting stage of a run, coder_agent, numbered in emission order.
StageChunks(n) == [j \in 1..n |-> <<"chunk", j>>]

\* The calls of stream_handler during one ainvoke (lines 68-75).  The stages
\* write to the `writer` argument of the graph (archon_graph.py lines 377,
\* 408, 410, 425, 434, 477, 485); none reads the stream_handler entry of the
\* config, so response_content receives nothing.
StreamHandlerCalls(emitted) == <<>>

\* chat, lines 81-94: full_response is the join of response_content.
Respond(a, h, emitted) ==
    [a EXCEPT !.handler[h].emitted = emitted,
              !.handler[h].response = StreamHandlerCalls(emitted)]

\* ainvoke raised: chat answers with HTTPException(500) (line 97),
\* websocket_chat sends an error message (lines 162-168); neither touches
\* the session dict.
InvokeRaised(a, h) ==
    [a EXCEPT !.handler[h].pc = IF h[1] = "http" THEN "idle" ELSE "receive",
              !.handler[h].outcome = "failed"]

\* clear_chat, lines 190-199.
clear_chat(a, s) ==
    IF a.active_sessions[s] = 0 THEN a
    ELSE [a EXCEPT !.objects = Append(@, ClearedSession),
                   !.active_sessions[s] = Len(a.objects) + 1]

-----------------------------------------------------------------------------
(* Finalization on its own: finish_conversation invoked on a given state *)

\* The states Finalization is invoked on: a latest user message and a
\* history of message records, with scope and architecture set.
FinalStates ==
    {[latest_user_message |-> m, messages |-> h, scope |-> 1, architecture |-> 1] :
        m \in 1..2,
        h \in {<<>>, << <<"coder_agent", 1>> >>,
                << <<"coder_agent", 1>>, <<"coder_agent", 2>> >>}}

\* What the completion service does for one request of end_conversation_agent:
\* the text deltas it yields and whether the request fails.
FinishReplies == [deltas : 0..MaxDeltas, gen_raise : BOOLEAN]

\* One invocation of finish_conversation on state st: the chunks it emits
\* (lines 474-485) and the update it returns (line 487), the JSON of the
\* run's new messages: the request made of st's latest user message, and
\* the service's reply.
FinalizationOutput(st, is_openai, reply) ==
    LET r == finish_conversation_run([is_openai |-> is_openai,
                                      deltas |-> reply.deltas,
                                      gen_raise |-> reply.gen_raise])
    IN [raised |-> r.raised, chunks |-> r.chunks,
        update |-> IF r.raised THEN <<>>
                   ELSE << <<"new_messages_json", st.latest_user_message,
                             reply.deltas>> >>]

NoFinalization ==
    [state |-> EmptyState, is_openai |-> FALSE, outputs |-> <<>>]

-----------------------------------------------------------------------------
(* utils/json_utils.py: clean_and_parse_json *)

\* A text is a sequence of characters.  The characters of the model: the
\* braces, the two quotes, the colon, the space, a letter and a digit.
LB == "{"
RB == "}"
SQ == "'"
DQ == "\""
COLON == ":"
SP == " "
Chars == {LB, RB, SQ, DQ, COLON, SP, "a", "1"}

\* The characters that \w matches.
WordChars == {"a", "1"}

\* The index after the longest run of characters of S that starts at i.
RECURSIVE RunEnd(_, _, _)
RunEnd(t, i, S) ==
    IF i > Len(t) THEN i
    ELSE IF t[i] \in S THEN RunEnd(t, i + 1, S)
    ELSE i

At1(t, i, ch) == IF i > Len(t) THEN FALSE ELSE t[i] = ch

\* json.loads, on the JSON that the characters of the model can spell:
\* numbers, strings, and objects of at most one member, with white space
\* between the tokens.  A parsed value is kept as its text without the
\* white space between tokens; Fail is json.JSONDecodeError.
Fail == [ok |-> FALSE, pos |-> 0, val |-> <<>>]
Ok(pos, val) == [ok |-> TRUE, pos |-> pos, val |-> val]

SkipWs(t, i) == RunEnd(t, i, {SP})

\* A string starts at i: it runs to the next double quote.
ParseString(t, i) ==
    LET j == RunEnd(t, i + 1, Chars \ {DQ})
    IN IF j > Len(t) THEN Fail ELSE Ok(j + 1, SubSeq(t, i, j))

\* A number starts at i: the digits that follow.
ParseNumber(t, i) ==
    LET j == RunEnd(t, i, {"1"})
    IN Ok(j, SubSeq(t, i, j - 1))

RECURSIVE ParseValue(_, _)

\* An object starts at i.
ParseObject(t, i) ==
    LET k == SkipWs(t, i + 1)
    IN IF At1(t, k, RB) THEN Ok(k + 1, <<LB, RB>>)
       ELSE IF ~At1(t, k, DQ) THEN Fail
       ELSE LET key == ParseString(t, k)
                c == SkipWs(t, key.pos)
            IN IF ~key.ok THEN Fail
               ELSE IF ~At1(t, c, COLON) THEN Fail
               ELSE LET v == ParseValue(t, SkipWs(t, c + 1))
                        e == SkipWs(t, v.pos)
                    IN IF ~v.ok THEN Fail
                       ELSE IF ~At1(t, e, RB) THEN Fail
                       ELSE Ok(e + 1, <<LB>> \o key.val \o <<COLON>> \o v.val
                                          \o <<RB>>)

ParseValue(t, i) ==
    IF At1(t, i, LB) THEN ParseObject(t, i)
    ELSE IF At1(t, i, DQ) THEN ParseString(t, i)
    ELSE IF At1(t, i, "1") THEN ParseNumber(t, i)
    ELSE Fail

\* json.loads(text) for a str: one value, white space around it, nothing else.
json_loads(t) ==
    LET v == ParseValue(t, SkipWs(t, 1))
    IN IF ~v.ok THEN Fail
       ELSE IF SkipWs(t, v.pos) <= Len(t) THEN Fail
       ELSE v

\* text.find(ch) and text.rfind(ch), 0 when ch does not occur.
Find(t, ch) ==
    IF \E i \in 1..Len(t) : t[i] = ch
    THEN CHOOSE i \in 1..Len(t) : t[i] = ch /\ \A j \in 1..(i - 1) : t[j] # ch
    ELSE 0

RFind(t, ch) ==
    IF \E i \in 1..Len(t) : t[i] = ch
    THEN CHOOSE i \in 1..Len(t) : t[i] = ch /\ \A j \in (i + 1)..Len(t) : t[j] # ch
    ELSE 0

\* Lines 30-31 and 53-56: the part of the text from its first opening brace to
\* its last closing brace, when the one comes before the other.
BraceMatch(t) ==
    LET start == Find(t, LB)
        end == RFind(t, RB)
    IN IF start > 0 /\ end > start
       THEN [found |-> TRUE, text |-> SubSeq(t, start, end)]
       ELSE [found |-> FALSE, text |-> <<>>]

KeepQuotes(t) == t

\* text.replace of the single quote by the double quote (lines 43, 59).
ReplaceQuotes(t) == [i \in 1..Len(t) |-> IF t[i] = SQ THEN DQ ELSE t[i]]

\* The re.sub of lines 45 and 61: every run of word characters that a colon
\* follows is put between double quotes.
RECURSIVE QuoteKeys(_, _)
QuoteKeys(t, i) ==
    IF i > Len(t) THEN <<>>
    ELSE IF t[i] \notin WordChars THEN <<t[i]>> \o QuoteKeys(t, i + 1)
    ELSE LET j == RunEnd(t, i, WordChars)
             run == SubSeq(t, i, j - 1)
         IN IF At1(t, j, COLON)
            THEN <<DQ>> \o run \o <<DQ, COLON>> \o QuoteKeys(t, j + 1)
            ELSE run \o QuoteKeys(t, j)

Normalize(t) == QuoteKeys(ReplaceQuotes(t), 1)

\* The text that recovery layer n hands to json.loads: 1 the text itself
\* (line 27), 2 the brace match (lines 30-36), 3 the normalized text
\* (lines 43-46), 4 the normalized brace match (lines 53-62).
Candidate(t, n) ==
    CASE n = 1 -> [found |-> TRUE, text |-> t]
      [] n = 2 -> BraceMatch(t)
      [] n = 3 -> [found |-> TRUE, text |-> Normalize(t)]
      [] n = 4 -> [found |-> BraceMatch(t).found,
                   text |-> Normalize(BraceMatch(t).text)]

\* The layer parses its candidate.
LayerParse(t, n) ==
    IF Candidate(t, n).found THEN json_loads(Candidate(t, n).text) ELSE Fail

\* The value None.
None == <<>>

\* The layers in the order of `layers`, each tried only when the ones
\* before it failed; `tried` lists the layers attempted.
RECURSIVE TryLayers(_, _, _)
TryLayers(t, layers, tried) ==
    IF layers = <<>>
    THEN [raised |-> FALSE, value |-> None, layer |-> 0, tried |-> tried]
    ELSE LET n == Head(layers)
             r == LayerParse(t, n)
         IN IF r.ok
            THEN [raised |-> FALSE, value |-> r.val, layer |-> n,
                  tried |-> Append(tried, n)]
            ELSE TryLayers(t, Tail(layers), Append(tried, n))

\* An argument of clean_and_parse_json: a str, a dict (given by its text)
\* or a value of another type; `truthy` is what `not text` tests.
StrInput(t) == [kind |-> "str", text |-> t, truthy |-> t # <<>>]
DictInput(d) == [kind |-> "dict", text |-> d, truthy |-> d # <<LB, RB>>]
OtherInput(b) == [kind |-> "other", text |-> <<>>, truthy |-> b]

NormalizeBeforeExtract(inp) ==
    IF ~inp.truthy THEN [raised |-> FALSE, value |-> None, layer |-> 0, tried |-> <<>>]
    ELSE IF inp.kind = "dict"
    THEN [raised |-> FALSE, value |-> inp.text, layer |-> 0, tried |-> <<>>]
    ELSE IF inp.kind # "str"
    THEN [raised |-> TRUE, value |-> None, layer |-> 1, tried |-> <<1>>]
    ELSE TryLayers(inp.text, <<1, 3, 2, 4>>, <<>>)

\* clean_and_parse_json.  A falsy argument gives None and a dict is
\* returned as it is (lines 17-22); for any other argument that is not a
\* str, json.loads raises TypeError at line 27, which no handler catches.
clean_and_parse_json(inp) ==
    IF ~inp.truthy THEN [raised |-> FALSE, value |-> None, layer |-> 0, tried |-> <<>>]
    ELSE IF inp.kind = "dict"
    THEN [raised |-> FALSE, value |-> inp.text, layer |-> 0, tried |-> <<>>]
    ELSE IF inp.kind # "str"
    THEN [raised |-> TRUE, value |-> None, layer |-> 1, tried |-> <<1>>]
    ELSE TryLayers(inp.text, <<1, 2, 3, 4>>, <<>>)

\* The texts of the model: every text of at most MaxTextLen characters, and
\* longer ones made of an object text between a prefix and a suffix.
MaxTextLen == 3

ObjectTexts ==
    {<<LB, RB>>, <<LB, DQ, "a", DQ, COLON, "1", RB>>,
     <<LB, SQ, "a", SQ, COLON, "1", RB>>, <<LB, "a", COLON, "1", RB>>,
     <<LB, SP, DQ, "a", DQ, SP, COLON, SP, "1", SP, RB>>,
     <<LB, DQ, "a", DQ, COLON, LB, DQ, "a", DQ, COLON, "1", RB, RB>>,
     <<LB, SQ, "a", SQ, COLON, SQ, "a", COLON, SQ, RB>>,
     <<LB, DQ, "a", DQ, COLON, DQ, "a", RB, DQ, RB>>}

Affixes == {<<>>, <<SP>>, <<"a", SP>>, <<SP, "a">>, <<"1">>, <<"a">>, <<RB>>, <<LB>>,
            <<DQ>>, <<SQ>>}

JsonTexts ==
    SeqsUpTo(Chars, MaxTextLen)
        \cup {p \o o \o q : p \in Affixes, o \in ObjectTexts, q \in Affixes}

JsonInputs ==
    {StrInput(t) : t \in JsonTexts}
        \cup {DictInput(<<LB, RB>>), DictInput(<<LB, DQ, "a", DQ, COLON, "1", RB>>),
              OtherInput(FALSE), OtherInput(TRUE)}

NoParsing ==
    [inp |-> StrInput(<<>>), done |-> FALSE,
     result |-> [raised |-> FALSE, value |-> None, layer |-> 0, tried |-> <<>>]]

-----------------------------------------------------------------------------
(* The engine: agentic_flow = builder.compile(checkpointer=MemorySaver()) *)

NoGeneration ==
    [inp |-> [env |-> NoRaise(<<>>, <<>>, <<>>), replies |-> <<0, 0, 0, 0>>,
              fail_at |-> 0, io_fail |-> 0, is_openai |-> FALSE, deltas |-> 0,
              gen_raise |-> FALSE],
     done |-> FALSE, result |-> <<>>, objects |-> NoObjects]

\* What a caller keeps of a call once its stream has ended.
Ended(k, outcome) ==
    [IdleCall EXCEPT !.thread = k.thread, !.mode = k.mode, !.ran = k.ran,
                     !.was_suspended = k.was_suspended, !.outcome = outcome,
                     !.gen = k.gen, !.retry = k.retry]

\* The thread's latest checkpoint is a suspension at the wait node.
Suspended(t) ==
    /\ checkpoint[t].exists
    /\ checkpoint[t].next = WaitNode
    /\ checkpoint[t].interrupt

InFlight(c) == call[c].pc # "idle"

\* Client c begins a call on thread t.
Overlap(c, t) ==
    [overlapped EXCEPT ![t] = @ \/ \E d \in Clients \ {c} :
                                      InFlight(d) /\ call[d].thread = t]

Save(t, st, nxt) ==
    [checkpoint EXCEPT ![t] = [exists |-> TRUE, values |-> st, next |-> nxt,
                               interrupt |-> FALSE]]

\* astream / ainvoke with an input dict: the input is applied to the values
\* the thread already holds, the input checkpoint is stored, and execution
\* starts at the entry node.
BeginRun(t, input, id) ==
    LET base == IF checkpoint[t].exists THEN checkpoint[t].values ELSE EmptyState
        st0 == ApplyUpdate(base, input)
    IN [ckpt |-> Save(t, st0, EntryNode),
        call |-> [IdleCall EXCEPT !.pc = EntryNode, !.thread = t, !.st = st0,
                                  !.id = id, !.mode = "run",
                                  !.was_suspended = Suspended(t),
                                  !.outcome = "Running"]]

\* The last call of client c ran on thread t and ended when a stage raised.
FailedInStage(c, t) ==
    /\ call[c].thread = t
    /\ call[c].outcome = "Failed"
    /\ call[c].ran # <<>>

ResumeRequiresSuspension(t, v, id) ==
    LET k == checkpoint[t]
        base == [IdleCall EXCEPT !.thread = t, !.id = id, !.mode = "resume",
                                 !.was_suspended = Suspended(t)]
    IN [ckpt |-> checkpoint,
        call |-> IF ~Suspended(t) THEN Ended(base, "Failed")
                 ELSE [base EXCEPT !.pc = k.next, !.st = k.values,
                                   !.resume = v, !.outcome = "Running"]]

ResumeWithFreshState(t, v, id) ==
    LET k == checkpoint[t]
        base == [IdleCall EXCEPT !.thread = t, !.id = id, !.mode = "resume",
                                 !.was_suspended = Suspended(t)]
    IN [ckpt |-> checkpoint,
        call |-> IF ~k.exists THEN Ended(base, "Failed")
                 ELSE IF k.next = "END" THEN Ended(base, "Completed")
                 ELSE [base EXCEPT !.pc = k.next, !.st = EmptyState,
                                   !.resume = v, !.outcome = "Running"]]

\* astream with Command(resume=v): execution continues from the thread's
\* latest checkpoint, whatever node it names; with no checkpoint the engine
\* raises, and with nothing left to run the stream ends at once.
BeginResume(t, v, id) ==
    LET k == checkpoint[t]
        base == [IdleCall EXCEPT !.thread = t, !.id = id, !.mode = "resume",
                                 !.was_suspended = Suspended(t)]
    IN [ckpt |-> checkpoint,
        call |-> IF ~k.exists THEN Ended(base, "Failed")
                 ELSE IF k.next = "END" THEN Ended(base, "Completed")
                 ELSE [base EXCEPT !.pc = k.next, !.st = k.values,
                                   !.resume = v, !.outcome = "Running"]]

\* chat_tab, lines 244-245: the assistant message is appended only when the
\* stream ended without an error chunk.
UiAfterStream(msgs, outcome) ==
    IF outcome = "Failed" THEN msgs ELSE Append(msgs, "ai")

EndOfStream(c, outcome) ==
    IF c \in UiSessions
    THEN ui_messages' = [ui_messages EXCEPT ![c] = UiAfterStream(@, outcome)]
    ELSE UNCHANGED ui_messages

\* The workbench directory: one file per stage document and the component
\* files of the template branch, at paths that do not depend on the
\* session.  A file is given by the thread id of the session that last
\* wrote it ("none": the file does not exist).
NoWorkbench ==
    [scope |-> "none", architecture |-> "none", implementation_plan |-> "none",
     components |-> "none"]

\* The file a node has written by the time it returns: scope.md (lines
\* 264-271), architecture.md (301-307), implementation_plan.md (333-339),
\* and the component files when coder_agent returns from the template
\* branch (392-408).
WriteWorkbench(w, node, t, gen) ==
    CASE node = "define_scope_with_reasoner" -> [w EXCEPT !.scope = t]
      [] node = "create_architecture" -> [w EXCEPT !.architecture = t]
      [] node = "create_implementation_plan" -> [w EXCEPT !.implementation_plan = t]
      [] node = "coder_agent" /\ gen.kind = "adapted" -> [w EXCEPT !.components = t]
      [] OTHER -> w

\* A node returned `upd`: the update is applied, the checkpoint of the step is
\* stored and the successor becomes the call's next node.
StepDone(c, upd, nxt, out, gen) ==
    LET k == call[c]
        st1 == ApplyUpdate(k.st, upd)
        k1 == [k EXCEPT !.st = st1, !.ran = Append(@, k.pc), !.resume = 0,
                        !.classified = out, !.gen = gen]
    IN /\ checkpoint' = Save(k.thread, st1, nxt)
       /\ workbench' = WriteWorkbench(workbench, k.pc, k.thread, gen)
       /\ IF nxt = "END"
          THEN /\ call' = [call EXCEPT ![c] = Ended(k1, "Completed")]
               /\ EndOfStream(c, "Completed")
          ELSE /\ call' = [call EXCEPT ![c] = [k1 EXCEPT !.pc = nxt]]
               /\ UNCHANGED ui_messages
       /\ UNCHANGED <<api_server, finalization, parsing, nCalls, process, overlapped, saved, retrieval, generation,
                 stream, ws>>

StepOk(c, upd, nxt, out) == StepDone(c, upd, nxt, out, call[c].gen)

\* A node raised: the exception leaves the engine, no checkpoint is stored
\* for the step, and the caller reports an error.
StepRaise(c) ==
    /\ call' = [call EXCEPT ![c] =
                    Ended([@ EXCEPT !.ran = Append(@, call[c].pc)], "Failed")]
    /\ EndOfStream(c, "Failed")
    /\ UNCHANGED <<workbench, api_server, finalization, parsing, checkpoint, nCalls, process, overlapped, saved, retrieval, generation,
                 stream, ws>>

-----------------------------------------------------------------------------
(* The callers *)

\* streamlit_ui.py chat_tab + run_agent_with_streaming: the first message of
\* a browser session runs the graph, every later one resumes it.
UiChat(u) ==
    /\ process = "streamlit"
    /\ call[u].pc = "idle"
    /\ nCalls < MaxCalls
    /\ LET id == nCalls + 1
           msgs == Append(ui_messages[u], "human")
           b == IF Len(msgs) = 1
                THEN BeginRun(get_thread_id(u), [latest_user_message |-> id], id)
                ELSE BeginResume(get_thread_id(u), id, id)
       IN /\ checkpoint' = b.ckpt
          /\ call' = [call EXCEPT ![u] =
                         [b.call EXCEPT !.retry = FailedInStage(u, get_thread_id(u))]]
          /\ ui_messages' = [ui_messages EXCEPT ![u] =
                IF b.call.pc = "idle" THEN UiAfterStream(msgs, b.call.outcome)
                ELSE msgs]
          /\ nCalls' = id
          /\ overlapped' = Overlap(u, get_thread_id(u))
          /\ UNCHANGED <<workbench, api_server, finalization, parsing, process, saved, retrieval, generation,
                 stream, ws>>

\* A thread id no call has used yet: str(uuid.uuid4()).
FreshThreads ==
    {t \in UuidThreads : ~checkpoint[t].exists /\ \A c \in Clients : call[c].thread # t}

\* The thread ids the clients supply; next to the health endpoint a client
\* may also supply the id that health_check uses.
SuppliedThreads ==
    IF process = "api_health" THEN ApiThreads \cup {HealthThread} ELSE ApiThreads

\* api/main.py chat: every request runs the graph with a fresh input on the
\* supplied thread id, or on a new uuid when none is supplied.
ApiChat(a) ==
    /\ process \in {"api", "api_health"}
    /\ call[a].pc = "idle"
    /\ nCalls < MaxCalls
    /\ \E t \in SuppliedThreads \cup FreshThreads :
         LET id == nCalls + 1
             b == BeginRun(t, [latest_user_message |-> id, messages |-> <<>>], id)
         IN /\ checkpoint' = b.ckpt
            /\ call' = [call EXCEPT ![a] =
                           [b.call EXCEPT !.retry = FailedInStage(a, t)]]
            /\ nCalls' = id
            /\ overlapped' = Overlap(a, t)
    /\ UNCHANGED <<workbench, api_server, finalization, parsing, ui_messages, process, saved, retrieval, generation,
                 stream, ws>>

\* api/main.py health_check, lines 84-90: the agent is called with a test
\* message on the thread id "test", like any other run of the graph.
HealthCheck(h) ==
    /\ process = "api_health"
    /\ call[h].pc = "idle"
    /\ nCalls < MaxCalls
    /\ LET id == nCalls + 1
           b == BeginRun(HealthThread, [latest_user_message |-> id, messages |-> <<>>], id)
       IN /\ checkpoint' = b.ckpt
          /\ call' = [call EXCEPT ![h] =
                         [b.call EXCEPT !.retry = FailedInStage(h, HealthThread)]]
          /\ nCalls' = id
          /\ overlapped' = Overlap(h, HealthThread)
    /\ UNCHANGED <<workbench, api_server, finalization, parsing, ui_messages, process,
                   saved, retrieval, generation, stream, ws>>

-----------------------------------------------------------------------------
(* The nodes *)

At(c, n) == call[c].pc = n

define_scope_with_reasoner(c) ==
    /\ At(c, "define_scope_with_reasoner")
    /\ \/ StepOk(c, [scope |-> call[c].id], EdgeFrom("define_scope_with_reasoner"), "none")
       \/ StepRaise(c)

create_architecture(c) ==
    /\ At(c, "create_architecture")
    /\ \/ StepOk(c, [architecture |-> call[c].id], EdgeFrom("create_architecture"), "none")
       \/ StepRaise(c)

\* The returned key implementation_plan is not a key of AgentState.
create_implementation_plan(c) ==
    /\ At(c, "create_implementation_plan")
    /\ \/ StepOk(c, [implementation_plan |-> call[c].id],
                 EdgeFrom("create_implementation_plan"), "none")
       \/ StepRaise(c)

\* Whether coder_agent returns from the template branch (line 411).
TemplateAdapted(env, replies, fail_at) ==
    LET r == find_similar_agent_templates(env)
    IN /\ HasCode(r.code)
       /\ HasCode(adapt_template_code(r.code, replies, fail_at))

\* The texts the full-generation completion yields: the whole text without
\* streaming, its deltas with streaming.
Yielded(inp) == IF inp.is_openai THEN inp.deltas ELSE 1

\* Whether template processing returns from the function (line 411), for
\* the inputs of the model.
TemplateReturns == {TemplateProcessing(inp).returned : inp \in TurnInputs}

\* What full generation does, for the inputs of the model: whether it
\* raises, the texts its completion yielded and the chunks it emitted.
FullGenerations ==
    {[raised |-> FullGeneration(inp).raised, yielded |-> Yielded(inp),
      chunks |-> Len(FullGeneration(inp).chunks)] : inp \in TurnInputs}

\* The template branch returns no message record (line 411); otherwise
\* full generation returns the run's new messages (line 438) or raises.
coder_agent(c) ==
    /\ At(c, "coder_agent")
    /\ \E returned \in TemplateReturns :
         IF returned
         THEN StepDone(c, [messages |-> <<>>], EdgeFrom("coder_agent"), "none",
                       [kind |-> "adapted", yielded |-> 0, chunks |-> 0])
         ELSE \E g \in FullGenerations :
                IF g.raised
                THEN StepRaise(c)
                ELSE StepDone(c, [messages |-> << <<"coder_agent", call[c].id>> >>],
                              EdgeFrom("coder_agent"), "none",
                              [kind |-> "full", yielded |-> g.yielded,
                               chunks |-> g.chunks])

\* The interrupt of call c is recorded with the checkpoint the call stored
\* before the wait node, when that is still the thread's latest.
RecordInterrupt(c) ==
    LET t == call[c].thread
    IN IF checkpoint[t].next = WaitNode /\ checkpoint[t].values = call[c].st
       THEN [checkpoint EXCEPT ![t].interrupt = TRUE]
       ELSE checkpoint

\* get_next_user_message without a resume value: interrupt() suspends the
\* graph; the thread stays at the checkpoint stored before the node.
Interrupt(c) ==
    /\ At(c, WaitNode)
    /\ call[c].resume = 0
    /\ call' = [call EXCEPT ![c] =
                    Ended([@ EXCEPT !.ran = Append(@, WaitNode)], "Suspended")]
    /\ EndOfStream(c, "Suspended")
    /\ checkpoint' = RecordInterrupt(c)
    /\ saved' = [saved EXCEPT ![call[c].thread] = call[c].st]
    /\ UNCHANGED <<workbench, api_server, finalization, parsing, nCalls, process, overlapped, retrieval, generation,
                 stream, ws>>

\* get_next_user_message with the resume value, then the conditional edge.
get_next_user_message(c) ==
    /\ At(c, WaitNode)
    /\ call[c].resume # 0
    /\ \/ \E out \in RouterOutputs :
            StepOk(c, [latest_user_message |-> call[c].resume],
                   route_user_message(out), out)
       \/ StepRaise(c)

finish_conversation(c) ==
    /\ At(c, "finish_conversation")
    /\ \/ StepOk(c, [messages |-> << <<"finish_conversation", call[c].id>> >>],
                 EdgeFrom("finish_conversation"), "none")
       \/ StepRaise(c)

-----------------------------------------------------------------------------

Init ==
    /\ checkpoint = [t \in Threads |-> NoCheckpoint]
    /\ call = [c \in Clients |-> IdleCall]
    /\ ui_messages = [u \in UiSessions |-> <<>>]
    /\ nCalls = 0
    /\ process \in {"streamlit", "api"}
    /\ overlapped = [t \in Threads |-> FALSE]
    /\ saved = [t \in Threads |-> EmptyState]
    /\ retrieval = NoRetrieval
    /\ generation = NoGeneration
    /\ stream = NoStream
    /\ ws = NoWs
    /\ api_server = NoApiServer
    /\ finalization = NoFinalization
    /\ parsing = NoParsing
    /\ workbench = NoWorkbench

Next ==
    \/ \E u \in UiSessions : UiChat(u)
    \/ \E a \in ApiClients : ApiChat(a)
    \/ \E c \in Clients : define_scope_with_reasoner(c)
    \/ \E c \in Clients : create_architecture(c)
    \/ \E c \in Clients : create_implementation_plan(c)
    \/ \E c \in Clients : coder_agent(c)
    \/ \E c \in Clients : Interrupt(c)
    \/ \E c \in Clients : get_next_user_message(c)
    \/ \E c \in Clients : finish_conversation(c)

Spec == Init /\ [][Next]_vars

-----------------------------------------------------------------------------
(* api/main.py with its health endpoint: chat requests and health checks *)

\* The chat clients observed next to the health endpoint.
HealthPeers == {"a1"}

InitHealth ==
    /\ checkpoint = [t \in Threads |-> NoCheckpoint]
    /\ call = [c \in Clients |-> IdleCall]
    /\ ui_messages = [u \in UiSessions |-> <<>>]
    /\ nCalls = 0
    /\ process = "api_health"
    /\ overlapped = [t \in Threads |-> FALSE]
    /\ saved = [t \in Threads |-> EmptyState]
    /\ retrieval = NoRetrieval
    /\ generation = NoGeneration
    /\ stream = NoStream
    /\ ws = NoWs
    /\ api_server = NoApiServer
    /\ finalization = NoFinalization
    /\ parsing = NoParsing
    /\ workbench = NoWorkbench

\* Neither endpoint resumes a thread, so the nodes after the wait node are
\* never entered by their calls.
NextHealth ==
    \/ \E a \in HealthPeers : ApiChat(a)
    \/ \E h \in HealthClients : HealthCheck(h)
    \/ \E c \in Clients : define_scope_with_reasoner(c)
    \/ \E c \in Clients : create_architecture(c)
    \/ \E c \in Clients : create_implementation_plan(c)
    \/ \E c \in Clients : coder_agent(c)
    \/ \E c \in Clients : Interrupt(c)

HealthSpec == InitHealth /\ [][NextHealth]_vars

-----------------------------------------------------------------------------
(* Retrieval on its own: every behaviour of the store, one invocation *)

InitRetrieval ==
    /\ checkpoint = [t \in Threads |-> NoCheckpoint]
    /\ call = [c \in Clients |-> IdleCall]
    /\ ui_messages = [u \in UiSessions |-> <<>>]
    /\ nCalls = 0
    /\ process = "none"
    /\ overlapped = [t \in Threads |-> FALSE]
    /\ saved = [t \in Threads |-> EmptyState]
    /\ retrieval \in {[NoRetrieval EXCEPT !.env = e] : e \in RetrievalEnvs}
    /\ generation = NoGeneration
    /\ stream = NoStream
    /\ ws = NoWs
    /\ api_server = NoApiServer
    /\ finalization = NoFinalization
    /\ parsing = NoParsing
    /\ workbench = NoWorkbench

Retrieve ==
    /\ ~retrieval.done
    /\ retrieval' = [retrieval EXCEPT !.done = TRUE,
                        !.result = find_similar_agent_templates(retrieval.env)]
    /\ UNCHANGED <<workbench, api_server, finalization, parsing, checkpoint, call, ui_messages, nCalls, process, overlapped,
                   saved, generation, stream, ws>>

RetrievalSpec == InitRetrieval /\ [][Retrieve]_vars

-----------------------------------------------------------------------------
(* CodeGeneration on its own: every input of the model, one invocation *)

InitGeneration ==
    /\ checkpoint = [t \in Threads |-> NoCheckpoint]
    /\ call = [c \in Clients |-> IdleCall]
    /\ ui_messages = [u \in UiSessions |-> <<>>]
    /\ nCalls = 0
    /\ process = "none"
    /\ overlapped = [t \in Threads |-> FALSE]
    /\ saved = [t \in Threads |-> EmptyState]
    /\ retrieval = NoRetrieval
    /\ generation \in {[NoGeneration EXCEPT !.inp = i] : i \in CoderInputs}
    /\ stream = NoStream
    /\ ws = NoWs
    /\ api_server = NoApiServer
    /\ finalization = NoFinalization
    /\ parsing = NoParsing
    /\ workbench = NoWorkbench

Generate ==
    /\ ~generation.done
    /\ generation' = [generation EXCEPT !.done = TRUE,
                          !.result = coder_agent_run(generation.inp),
                          !.objects = AdaptCall(generation.inp)]
    /\ UNCHANGED <<workbench, api_server, finalization, parsing, checkpoint, call, ui_messages, nCalls, process, overlapped,
                   saved, retrieval, stream, ws>>

GenerationSpec == InitGeneration /\ [][Generate]_vars

-----------------------------------------------------------------------------
(* The chunk stream of a browser session: streamlit_ui.py *)

\* A turn begins: astream is called and the turn's emitting stage starts.
StartTurn ==
    /\ stream.phase = "idle"
    /\ stream.turn < MaxTurns
    /\ \E plan \in StagePlans :
          /\ stream.turn = 0 => plan.stage = "coder_agent"
          /\ stream' = [stream EXCEPT !.turn = @ + 1, !.phase = "streaming",
                                      !.plan = plan, !.generated = 0]
    /\ UNCHANGED <<workbench, api_server, finalization, parsing, checkpoint, call, ui_messages, nCalls, process, overlapped,
                   saved, retrieval, generation, ws>>

\* The stage calls writer(chunk).
Writer ==
    /\ stream.phase = "streaming"
    /\ stream.generated < Len(stream.plan.chunks)
    /\ LET ch == <<stream.turn, stream.plan.stage,
                   stream.plan.chunks[stream.generated + 1]>>
       IN stream' = [stream EXCEPT !.generated = @ + 1,
                                   !.written = Append(@, ch),
                                   !.queue = Append(@, ch)]
    /\ UNCHANGED <<workbench, api_server, finalization, parsing, checkpoint, call, ui_messages, nCalls, process, overlapped,
                   saved, retrieval, generation, ws>>

\* run_agent_with_streaming yields the next chunk and chat_tab adds it to
\* response_content.
Yield ==
    /\ stream.queue # <<>>
    /\ LET t == TakeChunk(stream.queue)
       IN stream' = [stream EXCEPT !.received = Append(@, t.chunk),
                                   !.queue = t.rest]
    /\ UNCHANGED <<workbench, api_server, finalization, parsing, checkpoint, call, ui_messages, nCalls, process, overlapped,
                   saved, retrieval, generation, ws>>

\* The stage returns.
StageReturn ==
    /\ stream.phase = "streaming"
    /\ stream.generated = Len(stream.plan.chunks)
    /\ ~stream.plan.raised
    /\ stream' = [stream EXCEPT !.phase = "returned"]
    /\ UNCHANGED <<workbench, api_server, finalization, parsing, checkpoint, call, ui_messages, nCalls, process, overlapped,
                   saved, retrieval, generation, ws>>

\* The stage raises: the exception leaves the engine, and chunks the caller
\* has not taken yet may be lost with it.
StageRaise ==
    /\ stream.phase = "streaming"
    /\ stream.generated = Len(stream.plan.chunks)
    /\ stream.plan.raised
    /\ \E q \in {stream.queue, <<>>} :
          stream' = [stream EXCEPT !.phase = "raised", !.queue = q]
    /\ UNCHANGED <<workbench, api_server, finalization, parsing, checkpoint, call, ui_messages, nCalls, process, overlapped,
                   saved, retrieval, generation, ws>>

\* The generator ends: after a return the stream is exhausted, after an
\* exception run_agent_with_streaming yields its error message.
StreamEnd ==
    /\ stream.phase \in {"returned", "raised"}
    /\ stream.queue = <<>>
    /\ stream' =
          IF stream.phase = "returned"
          THEN [stream EXCEPT !.returned = @ \cup {stream.turn},
                              !.phase = IF stream.plan.stage = "finish_conversation"
                                        THEN "completed" ELSE "idle"]
          ELSE [stream EXCEPT !.errors = Append(@, stream.turn), !.phase = "idle"]
    /\ UNCHANGED <<workbench, api_server, finalization, parsing, checkpoint, call, ui_messages, nCalls, process, overlapped,
                   saved, retrieval, generation, ws>>

InitStream ==
    /\ checkpoint = [t \in Threads |-> NoCheckpoint]
    /\ call = [c \in Clients |-> IdleCall]
    /\ ui_messages = [u \in UiSessions |-> <<>>]
    /\ nCalls = 0
    /\ process = "streamlit"
    /\ overlapped = [t \in Threads |-> FALSE]
    /\ saved = [t \in Threads |-> EmptyState]
    /\ retrieval = NoRetrieval
    /\ generation = NoGeneration
    /\ stream = NoStream
    /\ ws = NoWs
    /\ api_server = NoApiServer
    /\ finalization = NoFinalization
    /\ parsing = NoParsing
    /\ workbench = NoWorkbench

NextStream ==
    \/ StartTurn
    \/ Writer
    \/ Yield
    \/ StageReturn
    \/ StageRaise
    \/ StreamEnd

StreamSpec == InitStream /\ [][NextStream]_vars

-----------------------------------------------------------------------------
(* The websocket handlers *)

WsConnect(k) ==
    /\ ws.conn[k].state = "none"
    /\ \A j \in 1..(k - 1) : ws.conn[j].state # "none"
    /\ ws' = [ws EXCEPT !.registry = k,
                         !.conn[k].state = "open",
                         !.conn[k].pc = "receive"]
    /\ UNCHANGED <<workbench, api_server, finalization, parsing, checkpoint, call, ui_messages, nCalls, process, overlapped,
                   saved, retrieval, generation, stream>>

\* receive_text returns a text of the client; the handler processes it up
\* to its next await of the workflow or of the next text.
WsMessage(k) ==
    /\ ws.conn[k].state = "open"
    /\ ws.conn[k].pc = "receive"
    /\ ws.conn[k].turn < MaxWsTurns
    /\ \E input \in WsInputs :
          LET w == [ws EXCEPT !.conn[k].turn = @ + 1, !.conn[k].input = input]
          IN ws' = IF ws.server = "main" THEN MainReceive(w, k, input)
                   ELSE ApiServerReceive(w, k, input)
    /\ UNCHANGED <<workbench, api_server, finalization, parsing, checkpoint, call, ui_messages, nCalls, process, overlapped,
                   saved, retrieval, generation, stream>>

\* api_server.py lines 143-166: agentic_flow.ainvoke returned or raised; the
\* terminal message is sent, and a send that fails ends the handler.
WsInvokeEnd(k) ==
    /\ ws.conn[k].pc = "invoke"
    /\ \E type \in {"complete", "error"} :
          LET r == Send(ws, k, type)
          IN ws' = IF r.ok THEN [r.w EXCEPT !.conn[k].pc = "receive"]
                   ELSE Cleanup(ws, k)
    /\ UNCHANGED <<workbench, api_server, finalization, parsing, checkpoint, call, ui_messages, nCalls, process, overlapped,
                   saved, retrieval, generation, stream>>

\* The client goes away.
WsClientDisconnect(k) ==
    /\ ws.conn[k].state = "open"
    /\ ws' = [ws EXCEPT !.conn[k].state = "gone",
                         !.conn[k].frozen = ws.conn[k].delivered]
    /\ UNCHANGED <<workbench, api_server, finalization, parsing, checkpoint, call, ui_messages, nCalls, process, overlapped,
                   saved, retrieval, generation, stream>>

\* receive_text raises WebSocketDisconnect.
WsNoticeDisconnect(k) ==
    /\ ws.conn[k].state = "gone"
    /\ ws.conn[k].pc = "receive"
    /\ ws' = Cleanup(ws, k)
    /\ UNCHANGED <<workbench, api_server, finalization, parsing, checkpoint, call, ui_messages, nCalls, process, overlapped,
                   saved, retrieval, generation, stream>>

InitWs ==
    /\ checkpoint = [t \in Threads |-> NoCheckpoint]
    /\ call = [c \in Clients |-> IdleCall]
    /\ ui_messages = [u \in UiSessions |-> <<>>]
    /\ nCalls = 0
    /\ process = "api"
    /\ overlapped = [t \in Threads |-> FALSE]
    /\ saved = [t \in Threads |-> EmptyState]
    /\ retrieval = NoRetrieval
    /\ generation = NoGeneration
    /\ stream = NoStream
    /\ ws \in {[NoWs EXCEPT !.server = sv] : sv \in WsServers}
    /\ api_server = NoApiServer
    /\ finalization = NoFinalization
    /\ parsing = NoParsing
    /\ workbench = NoWorkbench

NextWs ==
    \/ \E k \in Conns : WsConnect(k)
    \/ \E k \in Conns : WsMessage(k)
    \/ \E k \in Conns : WsInvokeEnd(k)
    \/ \E k \in Conns : WsClientDisconnect(k)
    \/ \E k \in Conns : WsNoticeDisconnect(k)

WsSpec == InitWs /\ [][NextWs]_vars

-----------------------------------------------------------------------------
(* The handlers of api_server.py *)

Others == <<checkpoint, call, ui_messages, nCalls, process, overlapped, saved,
            retrieval, generation, stream, ws, workbench>>

HasRoom(s) == api_server.active_sessions[s] # 0 \/ Len(api_server.objects) < MaxObjects

\* POST /api/chat, up to the await of the workflow.
SessionChat(s) ==
    /\ api_server.handler[<<"http", s>>].pc = "idle"
    /\ api_server.nRequests < MaxRequests
    /\ HasRoom(s)
    /\ api_server' = TakeMessage(GetSession(api_server, <<"http", s>>, NewHttpSession),
                                 <<"http", s>>)
    /\ UNCHANGED <<Others, finalization, parsing>>

\* The workflow call of a request or of a websocket message ends.
SessionInvokeEnd(h) ==
    /\ api_server.handler[h].pc = "invoke"
    /\ \/ \E g \in FullGenerations :
            /\ ~g.raised
            /\ api_server' =
                  IF h[1] = "http"
                  THEN Respond(ChatReturned(api_server, h), h, StageChunks(g.chunks))
                  ELSE WsReturned(api_server, h)
       \/ api_server' = InvokeRaised(api_server, h)
    /\ UNCHANGED <<Others, finalization, parsing>>

\* /ws/chat/{session_id}: the connection is accepted (lines 102-120).
SessionWsAccept(s) ==
    /\ api_server.handler[<<"ws", s>>].pc = "idle"
    /\ HasRoom(s)
    /\ api_server' = [GetSession(api_server, <<"ws", s>>, NewWsSession)
                         EXCEPT !.handler[<<"ws", s>>].pc = "receive"]
    /\ UNCHANGED <<Others, finalization, parsing>>

\* A message arrives on the connection (lines 125-130).
SessionWsReceive(s) ==
    /\ api_server.handler[<<"ws", s>>].pc = "receive"
    /\ api_server.nRequests < MaxRequests
    /\ api_server' = TakeMessage(api_server, <<"ws", s>>)
    /\ UNCHANGED <<Others, finalization, parsing>>

\* The client disconnects and the handler ends.
SessionWsClose(s) ==
    /\ api_server.handler[<<"ws", s>>].pc = "receive"
    /\ api_server' = [api_server EXCEPT !.handler[<<"ws", s>>].pc = "idle"]
    /\ UNCHANGED <<Others, finalization, parsing>>

\* DELETE /api/chat/{session_id}.
SessionClear(s) ==
    /\ api_server.active_sessions[s] # 0 => Len(api_server.objects) < MaxObjects
    /\ api_server' = clear_chat(api_server, s)
    /\ UNCHANGED <<Others, finalization, parsing>>

InitSession ==
    /\ checkpoint = [t \in Threads |-> NoCheckpoint]
    /\ call = [c \in Clients |-> IdleCall]
    /\ ui_messages = [u \in UiSessions |-> <<>>]
    /\ nCalls = 0
    /\ process = "api_server"
    /\ overlapped = [t \in Threads |-> FALSE]
    /\ saved = [t \in Threads |-> EmptyState]
    /\ retrieval = NoRetrieval
    /\ generation = NoGeneration
    /\ stream = NoStream
    /\ ws = NoWs
    /\ api_server = NoApiServer
    /\ finalization = NoFinalization
    /\ parsing = NoParsing
    /\ workbench = NoWorkbench

NextSession ==
    \/ \E s \in SessionIds : SessionChat(s)
    \/ \E h \in Handlers : SessionInvokeEnd(h)
    \/ \E s \in SessionIds : SessionWsAccept(s)
    \/ \E s \in SessionIds : SessionWsReceive(s)
    \/ \E s \in SessionIds : SessionWsClose(s)
    \/ \E s \in SessionIds : SessionClear(s)

SessionSpec == InitSession /\ [][NextSession]_vars

-----------------------------------------------------------------------------
(* Finalization invoked twice on one state *)

\* finish_conversation is invoked on the state; every invocation sends its
\* own request to the completion service.
Finalize ==
    /\ Len(finalization.outputs) < 2
    /\ \E reply \in FinishReplies :
          finalization' =
              [finalization EXCEPT !.outputs =
                  Append(@, FinalizationOutput(finalization.state,
                                               finalization.is_openai, reply))]
    /\ UNCHANGED <<Others, api_server, parsing>>

InitFinalization ==
    /\ checkpoint = [t \in Threads |-> NoCheckpoint]
    /\ call = [c \in Clients |-> IdleCall]
    /\ ui_messages = [u \in UiSessions |-> <<>>]
    /\ nCalls = 0
    /\ process = "none"
    /\ overlapped = [t \in Threads |-> FALSE]
    /\ saved = [t \in Threads |-> EmptyState]
    /\ retrieval = NoRetrieval
    /\ generation = NoGeneration
    /\ stream = NoStream
    /\ ws = NoWs
    /\ api_server = NoApiServer
    /\ finalization \in {[NoFinalization EXCEPT !.state = st, !.is_openai = o] :
                            st \in FinalStates, o \in BOOLEAN}
    /\ parsing = NoParsing
    /\ workbench = NoWorkbench

FinalizationSpec == InitFinalization /\ [][Finalize]_vars

-----------------------------------------------------------------------------
(* clean_and_parse_json on its own: every argument of the model *)

ParseJson ==
    /\ ~parsing.done
    /\ parsing' = [parsing EXCEPT !.done = TRUE,
                                  !.result = clean_and_parse_json(parsing.inp)]
    /\ UNCHANGED <<Others, api_server, finalization>>

InitJson ==
    /\ checkpoint = [t \in Threads |-> NoCheckpoint]
    /\ call = [c \in Clients |-> IdleCall]
    /\ ui_messages = [u \in UiSessions |-> <<>>]
    /\ nCalls = 0
    /\ process = "none"
    /\ overlapped = [t \in Threads |-> FALSE]
    /\ saved = [t \in Threads |-> EmptyState]
    /\ retrieval = NoRetrieval
    /\ generation = NoGeneration
    /\ stream = NoStream
    /\ ws = NoWs
    /\ api_server = NoApiServer
    /\ finalization = NoFinalization
    /\ parsing \in {[NoParsing EXCEPT !.inp = i] : i \in JsonInputs}
    /\ workbench = NoWorkbench

JsonSpec == InitJson /\ [][ParseJson]_vars

-----------------------------------------------------------------------------
(* Properties *)

IsPrefix(p, q) == Len(p) <= Len(q) /\ SubSeq(q, 1, Len(p)) = p

Count(q, x) == Cardinality({i \in 1..Len(q) : q[i] = x})

Last(q) == q[Len(q)]

\* C1: the message history of a thread is append-only.  Over every step of
\* every run/resume turn, the history stored for the thread keeps each
\* recorded entry at its index with its content and only gains records at
\* the end.  Stated for threads whose turns come one after the other (no
\* call began on the thread while another was in flight on it).
C1_MessagesAppendOnly ==
    [][\A t \in Threads :
          ~overlapped'[t] =>
              IsPrefix(checkpoint[t].values.messages,
                       checkpoint'[t].values.messages)]_vars

\* C1 witness: a thread with sequential turns whose history holds the
\* records of two turns.
C1_Witness ==
    \E t \in Threads :
        /\ ~overlapped[t]
        /\ Len(checkpoint[t].values.messages) >= 2

\* C2: suspend/resume round trip.  A call that resumes a thread suspended
\* at the wait node holds, before the wait node applies the new message,
\* exactly the state that the suspending call held when it suspended.
\* Stated for threads whose turns come one after the other.
C2_ResumeLoadsSavedState ==
    \A c \in Clients :
        (/\ call[c].pc = WaitNode
         /\ call[c].resume # 0
         /\ ~overlapped[call[c].thread])
        => call[c].st = saved[call[c].thread]

\* C2 witness: a resumed call at the wait node, new message not yet
\* applied, on a thread that already holds a scope and a message record.
C2_Witness ==
    \E c \in Clients :
        /\ call[c].pc = WaitNode
        /\ call[c].resume # 0
        /\ ~overlapped[call[c].thread]
        /\ call[c].st.scope # 0
        /\ call[c].st.messages # <<>>
        /\ call[c].st.latest_user_message # call[c].resume

\* The nodes that may follow node n within one call.
Successors(n) ==
    IF n = WaitNode THEN {"coder_agent", "finish_conversation"}
    ELSE {EdgeFrom(n)}

C8_RoutingTotal ==
    \A c \in Clients :
        call[c].classified # "none" =>
            /\ call[c].pc \in {"coder_agent", "finish_conversation"}
            /\ call[c].pc = "finish_conversation"
                   <=> call[c].classified = "finish_conversation"
            /\ checkpoint[call[c].thread].exists

\* C8 witness: an answer that is neither of the two texts was routed to
\* coder_agent.
C8_Witness ==
    \E c \in Clients :
        /\ call[c].classified \in {"", "finish_conversation."}
        /\ call[c].pc = "coder_agent"
        /\ call[c].st.latest_user_message = call[c].id
\* C4: a message sent for a suspended session continues from the wait node
\* and its routed successor.  A call that begins on a thread suspended at the
\* wait node resumes it and enters none of Scope, Architecture and
\* ImplementationPlan.
C4_SuspendedSessionContinues ==
    \A c \in Clients :
        call[c].was_suspended =>
            /\ call[c].mode = "resume"
            /\ call[c].pc \in {"idle", WaitNode, "coder_agent", "finish_conversation"}
            /\ \A i \in 1..Len(call[c].ran) :
                   call[c].ran[i] \in {WaitNode, "coder_agent", "finish_conversation"}

\* C5: resume requires a suspension checkpoint.  A resume of a thread that is
\* not suspended at the wait node fails and executes no stage.
C5_ResumeRequiresCheckpoint ==
    \A c \in Clients :
        (call[c].mode = "resume" /\ ~call[c].was_suspended) =>
            /\ ~InFlight(c)
            /\ call[c].ran = <<>>
            /\ call[c].outcome = "Failed"

\* C6: one call in flight per session id.  No two calls are in flight on the
\* same thread id at the same time.
C6_OneCallInFlight ==
    \A c, d \in Clients :
        (c # d /\ InFlight(c) /\ InFlight(d)) => call[c].thread # call[d].thread

\* C7: sessions are isolated.  Two distinct browser sessions never run their
\* calls on the same thread id.
C7_SessionsIsolated ==
    \A u, v \in UiSessions :
        (u # v /\ call[u].thread # "none" /\ call[v].thread # "none")
            => call[u].thread # call[v].thread

\* The first non-empty result of the chain, in the order similarity 0.5,
\* similarity 0.3, keywords in list order; <<>> when every result is empty.
RECURSIVE FirstKeywordHit(_, _)
FirstKeywordHit(env, i) ==
    IF i > Len(keywords) THEN <<>>
    ELSE LET hit == SelectSeq(env.store.data,
                       LAMBDA r : r.has_purpose /\ PurposeMatches(r.purpose, keywords[i]))
         IN IF hit # <<>> THEN hit ELSE FirstKeywordHit(env, i + 1)

FirstNonEmpty(env) ==
    IF env.q1.data # <<>> THEN env.q1.data
    ELSE IF env.q2.data # <<>> THEN env.q2.data
    ELSE FirstKeywordHit(env, 1)

IndexOf(q, x) == CHOOSE i \in 1..Len(q) : q[i] = x

Issued(tr, x) == \E i \in 1..Len(tr) : tr[i] = x

KeywordIssued(tr) == \E i \in 1..Len(tr) : tr[i][1] = "keyword"

\* C9: retrieval is total.  For every behaviour of the embedding service
\* and the store, the finished retrieval has not raised; it returns either
\* a match (the row's purpose with its four code items) or a no-match
\* marker with the empty mapping.
C9_RetrievalTotal ==
    retrieval.done =>
        LET r == retrieval.result
        IN /\ ~r.raised
           /\ r.matched =>
                 /\ Len(r.code) = 4
                 /\ \E row \in Rows : row.id = r.row /\ row.purpose = r.purpose
           /\ ~r.matched => r.code = <<>> /\ Len(r.purpose) = 1

\* C9 witness: the store failed during the retrieval and the retrieval
\* returned the no-match result.
C9_Witness ==
    /\ retrieval.done
    /\ ~retrieval.env.store.raised
    /\ retrieval.env.store.data # <<>>
    /\ retrieval.env.q1.raised
    /\ ~retrieval.result.matched
    /\ retrieval.result.code = <<>>

\* C10: the order of the retrieval queries.  The 0.5 similarity query comes
\* before every other similarity or keyword query; the 0.3 query is issued
\* only after the 0.5 query returned nothing; a keyword query is issued only
\* after both similarity queries returned nothing; and a match is the first
\* element of the first non-empty result.
C10_QueryOrder ==
    retrieval.done =>
        LET r == retrieval.result
            tr == r.trace
            env == retrieval.env
            q50 == <<"similarity", 50>>
            q30 == <<"similarity", 30>>
        IN /\ \A i \in 1..Len(tr) :
                 tr[i][1] \in {"similarity", "keyword"} =>
                     Issued(tr, q50) /\ IndexOf(tr, q50) <= i
           /\ Issued(tr, q30) =>
                 /\ ~env.q1.raised /\ env.q1.data = <<>>
                 /\ IndexOf(tr, q50) < IndexOf(tr, q30)
           /\ \A i \in 1..Len(tr) :
                 tr[i][1] = "keyword" =>
                     /\ ~env.q1.raised /\ env.q1.data = <<>>
                     /\ ~env.q2.raised /\ env.q2.data = <<>>
                     /\ Issued(tr, q30) /\ IndexOf(tr, q30) < i
           /\ r.matched =>
                 /\ FirstNonEmpty(env) # <<>>
                 /\ r.row = FirstNonEmpty(env)[1].id

\* C10 witness: both similarity queries returned nothing, the keyword
\* search ran past its first keyword and its hit was selected.
C10_Witness ==
    /\ retrieval.done
    /\ retrieval.result.matched
    /\ retrieval.env.q1.data = <<>>
    /\ retrieval.env.q2.data = <<>>
    /\ Issued(retrieval.result.trace, <<"keyword", 3>>)
    /\ retrieval.result.row = 3

-----------------------------------------------------------------------------
(* CodeGeneration: retrieval, adaptation and the fallback *)

\* The adaptation call of component i returned a non-empty code text.
ComponentYields(inp, i) ==
    /\ inp.fail_at = 0 \/ i < inp.fail_at
    /\ Writable(inp.replies[i])

C12_PartialAdaptationSucceeds ==
    generation.done =>
        LET r == generation.result
            inp == generation.inp
        IN (r.has_template /\ inp.io_fail = 0
                /\ \E i \in 1..4 : ComponentYields(inp, i))
           => r.returned /\ ~r.full

\* C13: an empty adaptation is a failure.  Whenever a template with code was
\* retrieved and the adapter's result holds no non-empty code (an empty
\* mapping, or only empty or blank texts), the invocation runs full
\* generation and does not return from the template branch.
C13_EmptyAdaptationFallsBack ==
    generation.done =>
        LET r == generation.result
        IN (r.has_template
                /\ \A i \in 1..Len(r.adapted) : ~Writable(r.adapted[i][2]))
           => r.full /\ ~r.returned

C17_CodeGenerationAppendsRecord ==
    generation.done =>
        (~generation.result.raised => Len(generation.result.update) >= 1)

-----------------------------------------------------------------------------
(* Turns: the first run and the finishing resume *)

\* The nodes of a run, in the order of the graph's edges.
RunPath == <<"define_scope_with_reasoner", "create_architecture",
             "create_implementation_plan", "coder_agent",
             "get_next_user_message">>

FinishingTurn(c) ==
    /\ call[c].mode = "resume"
    /\ call[c].was_suspended
    /\ Len(call[c].ran) >= 1
    /\ \/ call[c].pc = "finish_conversation"
       \/ Len(call[c].ran) >= 2 /\ call[c].ran[2] = "finish_conversation"

\* The finishing turn runs Finalization once and no CodeGeneration, and
\* ends Completed unless Finalization itself fails.
C16_FinishingTurnCompletes ==
    \A c \in Clients :
        FinishingTurn(c) =>
            LET path == IF InFlight(c) THEN Append(call[c].ran, call[c].pc)
                        ELSE call[c].ran
            IN /\ path = <<WaitNode, "finish_conversation">>
               /\ ~InFlight(c) => call[c].outcome \in {"Completed", "Failed"}
               /\ call[c].outcome = "Completed" =>
                     checkpoint[call[c].thread].exists

\* C16: a resume that routing classifies as Finish runs Finalization exactly
\* once and no CodeGeneration and ends Completed; and Completed is terminal:
\* once a thread's workflow has ended, no later step starts or executes a
\* stage on it, so its checkpoint never changes again.
C16_FinishIsTerminal ==
    [][/\ C16_FinishingTurnCompletes'
       /\ \A t \in Threads :
             (checkpoint[t].exists /\ checkpoint[t].next = "END")
                 => checkpoint'[t] = checkpoint[t]]_vars

-----------------------------------------------------------------------------
(* Chunk delivery *)

\* The chunks of turn t in a sequence of tagged chunks.
TurnOf(q, t) == SelectSeq(q, LAMBDA ch : ch[1] = t)

Terminals(q, k, t) ==
    SelectSeq(q, LAMBDA m : m[1] \in {"complete", "error"} /\ m[2] = k /\ m[3] = t)

\* C19: every user message gets exactly one terminal message.  On a
\* connection the client has not left, every message whose processing has
\* ended was answered by exactly one complete or error message, no turn has
\* more than one, and no chunk of a turn follows its terminal message.
C19_OneTerminalPerTurn ==
    \A k \in Conns :
        LET cn == ws.conn[k]
            q == cn.delivered
        IN /\ \A t \in 1..cn.turn : Len(Terminals(q, k, t)) <= 1
           /\ \A i, j \in 1..Len(q) :
                 (i < j /\ q[i][1] \in {"complete", "error"} /\ q[j][1] = "chunk")
                     => q[i][3] # q[j][3]
           /\ (cn.state \in {"open", "closed"} /\ cn.pc \in {"receive", "done"}) =>
                 \A t \in 1..cn.turn : Len(Terminals(q, k, t)) = 1

-----------------------------------------------------------------------------
(* The session table of api_server.py *)

\* C21: no partial state is persisted for a failed turn.  Whenever the
\* workflow call of a request or of a websocket message fails, the session
\* dict the handler works on (its conversation state and its message list)
\* has, right after the failure, the value it had before the handler took
\* the message.
C21_FailedTurnLeavesNoState ==
    [][\A h \in Handlers :
          (/\ api_server.handler[h].pc = "invoke"
           /\ api_server'.handler[h].pc # "invoke"
           /\ api_server'.handler[h].outcome = "failed")
          => api_server'.objects[api_server.handler[h].ref]
                 = api_server.handler[h].before]_vars

\* The session dicts that active_sessions holds for the ids other than s.
OtherSessions(a, s) ==
    [x \in SessionIds \ {s} |->
        IF a.active_sessions[x] = 0 THEN <<>>
        ELSE <<a.objects[a.active_sessions[x]]>>]

\* C26: explicit reset.  A clear_chat of a known session id stores for it a
\* state equal to that of a session newly created by either endpoint and
\* leaves the state stored for every other session id unchanged; and every
\* message taken afterwards is processed on the state stored for its
\* session id, so that the message after a reset starts from the fresh
\* state.
C26_ResetStoresFreshState ==
    [][\A s \in SessionIds :
          /\ (/\ api_server.active_sessions[s] # 0
              /\ api_server'.active_sessions[s] # api_server.active_sessions[s])
             => /\ \A new \in {NewHttpSession, NewWsSession} :
                      api_server'.objects[api_server'.active_sessions[s]] = new
                /\ OtherSessions(api_server', s) = OtherSessions(api_server, s)
          /\ \A kind \in HandlerKinds :
                (/\ api_server.handler[<<kind, s>>].pc # "invoke"
                 /\ api_server'.handler[<<kind, s>>].pc = "invoke")
                => api_server'.handler[<<kind, s>>].ref
                       = api_server'.active_sessions[s]]_vars

-----------------------------------------------------------------------------
(* Failures of a stage, and what the stages keep of the design documents *)

\* C22: a failure inside a stage is never raised to the caller.  A call
\* that has entered a stage does not end with an error; the only calls that
\* end with an error are those the engine rejects before any stage runs.
C22_StageFailuresCaught ==
    \A c \in Clients : call[c].outcome = "Failed" => call[c].ran = <<>>

\* C23: after a failure during a turn the session stays resumable.  The
\* failure of a stage stores nothing: the thread keeps its last stored
\* checkpoint, which exists and, on a thread whose turns come one after the
\* other, is not the end of the workflow, and the client is free to call
\* again.  The client's next call on that thread is accepted whenever the
\* thread has not been completed meanwhile: it runs, from the node and with
\* the state of the thread's stored checkpoint.
C23_ResumableAfterFailure ==
    [][\A c \in Clients :
          /\ (call[c].outcome = "Running" /\ call'[c].outcome = "Failed") =>
                LET t == call[c].thread
                IN /\ checkpoint'[t] = checkpoint[t]
                   /\ checkpoint[t].exists
                   /\ ~overlapped[t] => checkpoint'[t].next # "END"
                   /\ call'[c].pc = "idle"
          /\ (/\ call[c].pc = "idle"
              /\ call'[c] # call[c]
              /\ call'[c].retry
              /\ checkpoint[call'[c].thread].next # "END") =>
                LET t == call'[c].thread
                IN /\ call'[c].outcome = "Running"
                   /\ call'[c].pc = checkpoint'[t].next
                   /\ call'[c].st = checkpoint'[t].values]_vars

\* C23 witness: the first run of a browser session failed in a stage after
\* Scope; the next message resumed the thread at the failed stage, with the
\* scope stored before the failure, and the call went on to suspend.
C23_Witness ==
    \E c \in UiSessions :
        /\ call[c].retry
        /\ call[c].mode = "resume"
        /\ ~call[c].was_suspended
        /\ call[c].outcome = "Suspended"
        /\ call[c].ran[1] # EntryNode
        /\ checkpoint[call[c].thread].values.scope # 0
        /\ ~overlapped[call[c].thread]

\* The stages that are given scope and architecture and do not return them.
ReadOnlyNodes == {"coder_agent", WaitNode, "finish_conversation"}

\* C24: scope and architecture are written once.  The checkpoint that
\* CodeGeneration, the wait node with Routing, or Finalization stores holds
\* the scope and the architecture the stage was given; and once a thread's
\* stored scope (architecture) is set, no later step of any turn on that
\* thread changes it.  The second part is stated for threads whose turns
\* come one after the other.
C24_ScopeWrittenOnce ==
    [][/\ \A c \in Clients :
             LET t == call[c].thread
             IN (/\ call[c].pc \in ReadOnlyNodes
                 /\ call'[c] # call[c]
                 /\ checkpoint'[t] # checkpoint[t]) =>
                    /\ checkpoint'[t].values.scope = call[c].st.scope
                    /\ checkpoint'[t].values.architecture = call[c].st.architecture
       /\ \A t \in Threads :
             ~overlapped'[t] =>
                /\ checkpoint[t].values.scope # 0 =>
                      checkpoint'[t].values.scope = checkpoint[t].values.scope
                /\ checkpoint[t].values.architecture # 0 =>
                      checkpoint'[t].values.architecture
                          = checkpoint[t].values.architecture]_vars

\* C25: the implementation plan is kept.  When ImplementationPlan has
\* completed and CodeGeneration is about to run, the conversation state
\* holds the plan that the stage produced in this call.
C25_PlanKeptInState ==
    \A c \in Clients :
        (/\ call[c].pc = "coder_agent"
         /\ call[c].ran # <<>>
         /\ Last(call[c].ran) = "create_implementation_plan")
        => /\ "implementation_plan" \in DOMAIN call[c].st
           /\ call[c].st["implementation_plan"] = call[c].id

-----------------------------------------------------------------------------
(* Finalization *)

\* C27: Finalization is idempotent.  Two invocations of finish_conversation
\* on the same unchanged state produce the same output: the same emitted
\* chunks and the same returned record.
C27_FinalizationIdempotent ==
    Len(finalization.outputs) = 2 =>
        finalization.outputs[1] = finalization.outputs[2]

-----------------------------------------------------------------------------
(* The JSON recovery parser *)

Min(S) == CHOOSE n \in S : \A m \in S : n <= m

\* The layers among 1..last whose parse of text t succeeds.
Succeeding(t, last) == {n \in 1..last : LayerParse(t, n).ok}

\* The result is that of the first succeeding layer among 1..last, reached
\* by trying the layers before it in order, and None when none succeeds.
FirstSuccessOf(t, last, r) ==
    IF Succeeding(t, last) = {}
    THEN r.value = None /\ r.layer = 0
    ELSE LET n == Min(Succeeding(t, last))
         IN /\ r.layer = n
            /\ r.value = LayerParse(t, n).val
            /\ r.tried = [i \in 1..n |-> i]

\* C28: clean_and_parse_json never raises.  For every argument the call
\* returns a value, and for a text that no recovery layer can parse the
\* value is None.
C28_ParserNeverRaises ==
    parsing.done =>
        /\ ~parsing.result.raised
        /\ (parsing.inp.kind = "str" /\ Succeeding(parsing.inp.text, 4) = {})
              => parsing.result.value = None

\* The object {"a":1}, its single-quoted spelling, and the affixes without
\* braces and quotes.
ObjectA1 == <<LB, DQ, "a", DQ, COLON, "1", RB>>
SingleQuotedA1 == <<LB, SQ, "a", SQ, COLON, "1", RB>>
PlainAffixes == {a \in Affixes : \A i \in 1..Len(a) : a[i] \notin {LB, RB, SQ, DQ}}

\* C29: malformed structured output is recovered.  The single-quoted
\* object {'a':1} parses to the object {"a":1}, also with plain text around
\* it; and a JSON object between a prefix and a suffix without braces and
\* quotes, such as  a {"a":1} a,  parses to that object.
C29_RecoversMalformed ==
    (parsing.done /\ parsing.inp.kind = "str") =>
        LET t == parsing.inp.text
            r == parsing.result
        IN \A p \in PlainAffixes, q \in PlainAffixes :
              /\ t = p \o SingleQuotedA1 \o q => ~r.raised /\ r.value = ObjectA1
              /\ \A o \in ObjectTexts :
                    (json_loads(o).ok /\ t = p \o o \o q)
                        => ~r.raised /\ r.value = json_loads(o).val

\* C29 witness: {'a':1} was parsed to {"a":1} by the normalization layer,
\* after strict parse and brace extraction had failed.
C29_Witness ==
    /\ parsing.done
    /\ parsing.inp = StrInput(SingleQuotedA1)
    /\ parsing.result.value = ObjectA1
    /\ parsing.result.tried = <<1, 2, 3>>

\* C30 as stated: three recovery layers.  The result is that of the first
\* succeeding layer among strict parse, brace extraction and normalization,
\* and None when these three fail.
C30_ThreeLayersInOrder ==
    (parsing.done /\ parsing.inp.kind = "str" /\ parsing.inp.truthy) =>
        FirstSuccessOf(parsing.inp.text, 3, parsing.result)

\* C30: the recovery layers are applied in order.  There are four: strict
\* parse, brace extraction, normalization of the text, normalization of the
\* brace extract.  A layer is tried only if every layer before it failed,
\* the returned value is the result of the first layer that succeeds, and
\* None is returned when all four fail.
C30_LayersInOrder ==
    (parsing.done /\ parsing.inp.kind = "str" /\ parsing.inp.truthy) =>
        /\ ~parsing.result.raised
        /\ FirstSuccessOf(parsing.inp.text, 4, parsing.result)

\* C30 witness: a text that only the fourth layer parses,  a{a:1}.
C30_Witness ==
    /\ parsing.done
    /\ parsing.inp = StrInput(<<"a", LB, "a", COLON, "1", RB>>)
    /\ parsing.result.tried = <<1, 2, 3, 4>>
    /\ parsing.result.layer = 4
    /\ parsing.result.value = ObjectA1

\* A returned value is a JSON object (a dict): its text starts with a brace.
IsDict(v) == v # <<>> /\ v[1] = LB

\* C31: whatever the argument, a call of clean_and_parse_json that returns
\* gives a parsed JSON object (a dict) or None, never a number or a string.
C31_ReturnsDictOrNone ==
    (parsing.done /\ ~parsing.result.raised) =>
        (parsing.result.value = None \/ IsDict(parsing.result.value))

\* C32: template adaptation never mutates the retrieved template.  After
\* adapt_template_code has returned, with adapted code or with an empty
\* result, the retrieved mapping holds what retrieval returned and the
\* adapted code is held in another mapping.
C32_TemplateNotMutated ==
    (generation.done /\ generation.result.has_template) =>
        LET o == generation.objects
        IN /\ o.heap[o.template] = generation.result.retrieval.code
           /\ o.returned # o.template
           /\ o.heap[o.returned] = generation.result.adapted

\* C32 witness: the newsletter template was retrieved, two components were
\* adapted and the third adaptation call raised: the result is empty.
C32_Witness ==
    /\ generation.done
    /\ generation.result.has_template
    /\ generation.result.retrieval.row = 1
    /\ generation.inp.fail_at = 3
    /\ generation.inp.replies = <<1, 1, 1, 1>>
    /\ generation.result.adapted = <<>>
    /\ generation.objects.heap[1][1] = <<"agents_code", 11>>

\* C33: in the websocket handler of api/main.py every non-empty well-formed
\* message is answered by a complete message and the connection stays open
\* for further messages.  As a state property: once the handler has
\* processed such a message, its client has received the complete message
\* of that turn, and the server has not closed the connection.
C33_MainAnswersEveryMessage ==
    ws.server = "main" =>
        \A k \in Conns :
            LET cn == ws.conn[k]
            IN (cn.input = "text" /\ cn.pc \in {"receive", "done"}) =>
                  /\ \E i \in 1..Len(cn.delivered) :
                        cn.delivered[i] = <<"complete", k, cn.turn>>
                  /\ cn.state # "closed"

\* C34: the response of POST /api/chat is the concatenation, in emission
\* order, of the chunks the workflow stages emitted during the call.  For
\* every request of the model that returned, the texts joined into the
\* response are the chunks the stages wrote.
C34_ResponseIsConcatenation ==
    \A s \in SessionIds :
        LET k == api_server.handler[<<"http", s>>]
        IN k.outcome = "returned" => k.response = k.emitted

\* C35: adapted output and full-generation output are never both produced
\* by one CodeGeneration invocation.  If the invocation ends in full
\* generation, it has written no adapted component file and emitted no
\* "Created <file>" chunk.
C35_AdaptedOrFullNotBoth ==
    (generation.done /\ generation.result.full) =>
        /\ generation.result.files = <<>>
        /\ \A i \in 1..Len(generation.result.chunks) :
              generation.result.chunks[i][1] # "created"

\* The connections of the session id whose handler has not ended.
OpenConns == {k \in Conns : ws.conn[k].pc \in {"receive", "invoke"}}

\* len(active_connections), for the one session id of the model.
RegistryCount == IF ws.registry = 0 THEN 0 ELSE 1

\* C36: the connection registry holds an entry for a session id exactly
\* while a websocket connection of that id is open, so the number of
\* registry entries equals the number of open connections, also when two
\* connections use the same id.
C36_RegistryMatchesConnections ==
    /\ ws.registry # 0 <=> OpenConns # {}
    /\ RegistryCount = Cardinality(OpenConns)

\* The sessions whose outputs the files of the workbench hold.
WorkbenchOwners ==
    {workbench[f] : f \in DOMAIN workbench} \ {"none"}

\* C37: the workbench never mixes sessions.  When no call is in flight and
\* no call has failed, the files left in the workbench (scope.md,
\* architecture.md, implementation_plan.md and the component files) all
\* hold outputs of one session.
C37_WorkbenchOfOneSession ==
    (\A c \in Clients : ~InFlight(c) /\ call[c].outcome # "Failed")
        => Cardinality(WorkbenchOwners) <= 1

\* C38: a /api/health request leaves every user session unchanged.  No
\* step of the health check's agent call creates, advances or overwrites
\* the checkpoint or the saved conversation state of a thread id, and none
\* overwrites a file of the workbench.
C38_HealthLeavesSessions ==
    [][\A h \in HealthClients :
          call'[h] # call[h] =>
             /\ checkpoint' = checkpoint
             /\ saved' = saved
             /\ workbench' = workbench]_vars

\* Both similarity queries of the retrieval returned nothing.
BothQueriesEmpty(env) ==
    /\ ~env.store.raised /\ env.store.data # <<>>
    /\ ~env.q1.raised /\ env.q1.data = <<>>
    /\ ~env.q2.raised /\ env.q2.data = <<>>

\* C39: the keyword fallback does not depend on the user's request.  When
\* both similarity queries return nothing, the retrieval of any other
\* request against the same store (with the same behaviour of the store)
\* returns the same result.
C39_FallbackIgnoresRequest ==
    (retrieval.done /\ BothQueriesEmpty(retrieval.env)) =>
        \A q \in Requests :
            find_similar_agent_templates([retrieval.env EXCEPT !.query = q])
                = retrieval.result

\* C39 witness: the request was for research, both similarity queries
\* returned nothing from a store that holds a research template, and the
\* keyword search selected the content template.
C39_Witness ==
    /\ retrieval.done
    /\ BothQueriesEmpty(retrieval.env)
    /\ retrieval.env.query = <<"research">>
    /\ retrieval.env.store.data = <<RResearch, RContent>>
    /\ retrieval.env.kw_raise = 0
    /\ retrieval.result.matched
    /\ retrieval.result.row = 3

====
